---- MODULE Spec2Model ----
(***************************************************************************)
(* Model of the video-answer-agent state machines:                         *)
(*   - the query pipeline (backend/app/pipeline_logic.py, main.py,         *)
(*     utils.py) working on the per-video interaction log and metadata     *)
(*     document kept in the object store;                                  *)
(*   - the full pipeline of the backend (run_full_pipeline_async);         *)
(*   - the ingestion pipeline (video-processing-pipeline/                  *)
(*     process_video_pipeline.py) working on the local JSON document.      *)
(*                                                                         *)
(* The object store has no compare-and-swap: a get_object and the          *)
(* put_object that follows it are two separate requests, and the store     *)
(* serialises requests, not handlers.  Each request is one step here.      *)
(* A request that raises leaves the stored object unchanged.               *)
(***************************************************************************)
EXTENDS Integers, Sequences, FiniteSets, TLC

(* ---------- bounds of the model ---------- *)
NumQueries == 2
NumChunks == 2
NumSegments == 3
MaxBlocks == 3
TimeSteps == 20
INDEXING_BATCH_SIZE == 1
MaxRuns == 2
MaxChunkNumber == 4
MaxParts == 2
MaxWords == 3
NumVideos == 2
MaxFrames == 360
MaxScenes == 3

(* ---------- program constants ---------- *)
CAPTION_MAX_RETRIES == 5
beginning_until == 15
end_from == 85
retries == 3
top_k == 3
long_query_words == 50
fixed_chunk_duration == 4

Null == "null"

Tasks == 1..NumQueries

VARIABLES
    s3_interactions,   \* the object at get_s3_interactions_path(video_id)
    s3_metadata,       \* the object at get_s3_json_path(video_id)
    kind,              \* per task: "none" (not submitted), "query", "full"
    pc,                \* per task: position in the background task
    attempt,           \* per task: loop variable of the retry loop it is in
    interactions,      \* per task: the list read by the helper it is in
    upd_status,        \* per task: status argument of the running update
    metadata,          \* per task: the document read by update_overall_processing_status
    final_answer,      \* per task: result of _synthesize_answer
    slept,             \* per task: seconds of the time.sleep it has just
                       \* returned from, 0 when its last statement was no sleep
    poll_response      \* last response of get_query_status

backend_vars == <<s3_interactions, s3_metadata, kind, pc, attempt,
                  interactions, upd_status, metadata, final_answer, slept,
                  poll_response>>

VARIABLES
    video_file,        \* the file in the video's directory: "none", "mp4", "other"
    doc,               \* the local JSON document of the video
    pinecone_index,    \* ids of the vectors stored in the index
    stage,             \* position of main_pipeline
    runs,              \* number of runs of main_pipeline started
    run_calls,         \* external requests made by the current run
    start_status,      \* processing_status of the document when the run started
    data,              \* indexing_status held by index_captions_in_pinecone
    failed_stage,      \* the stage that failed in the current run
    indexing,          \* locals of the indexing logic of the current run
    index_ended,       \* the indexing logic has run to its end on the document
    index_returned     \* what index_captions_in_pinecone returned in the
                       \* current run: "not_returned", "None", "path"

VARIABLES
    retrieval,         \* a call of _retrieve_relevant_chunks: what the clients
                       \* did and what the call gave back
    mcp,               \* a call of _call_mcp: its configuration, what the tool
                       \* provider and the selection model did, its result
    selection,         \* a call of _select_perplexity_tool_rule_based: the
                       \* query and the tool selected
    segmentation,      \* a call of the segmentation: the video, the scenes
                       \* detected and the chunks written
    captioning,        \* a call of _process_single_chunk_for_captioning
    pool,              \* the worker pool of the caption stage
    llm,               \* a response of the selection model, processed
    context            \* a clip of _assemble_video_context and its time hints

pure_vars == <<retrieval, mcp, selection, segmentation, captioning, pool, llm, context>>

ingest_vars == <<video_file, doc, pinecone_index, stage, runs, run_calls,
                 start_status, data, failed_stage, indexing, index_ended,
                 index_returned>>

vars == <<backend_vars, ingest_vars, pure_vars>>

(* ---------- object bodies ---------- *)

\* json.dumps({'interactions': interactions}): a JSON object, not an array
InteractionsBody(list) ==
    [exists |-> TRUE, json |-> "object", interactions |-> list]

NoSuchKey == [exists |-> FALSE, json |-> "none", interactions |-> <<>>]

\* the dictionary built by query_processed_video
NewInteraction(id) ==
    [interaction_id |-> id, status |-> "processing",
     ai_answer |-> Null, answer_timestamp |-> Null]

\* pipeline_logic.get_interactions_from_s3 on a readable object
pl_get_interactions_from_s3(obj) ==
    IF obj.exists THEN obj.interactions ELSE <<>>

\* utils.get_interactions_from_s3, the reader used by the status poll
utils_get_interactions_from_s3(obj) ==
    IF ~obj.exists THEN <<>>
    ELSE IF obj.json # "array" THEN <<>>
    ELSE obj.interactions

Ids(list) == {list[i].interaction_id : i \in 1..Len(list)}

\* first index holding the id, 0 when there is none
FirstIndex(list, id) ==
    IF id \in Ids(list)
    THEN CHOOSE i \in 1..Len(list) :
            /\ list[i].interaction_id = id
            /\ \A j \in 1..(i-1) : list[j].interaction_id # id
    ELSE 0

\* the loop body of update_interaction_status_in_s3 on the matching record
UpdatedRecord(r, status, answer, ts) ==
    IF answer # Null
    THEN [r EXCEPT !.status = status, !.ai_answer = answer,
                   !.answer_timestamp = ts]
    ELSE [r EXCEPT !.status = status]

\* variant: the updated record taken out of its place and put last
UpdateListMovingLast(list, id, status, answer, ts) ==
    LET k == FirstIndex(list, id)
    IN  IF k = 0 THEN list
        ELSE Append(SubSeq(list, 1, k - 1) \o SubSeq(list, k + 1, Len(list)),
                    UpdatedRecord(list[k], status, answer, ts))

UpdateList(list, id, status, answer, ts) ==
    LET k == FirstIndex(list, id)
    IN  IF k = 0 THEN list
        ELSE [list EXCEPT ![k] = UpdatedRecord(list[k], status, answer, ts)]

\* variant: _synthesize_answer returning no value when the completion fails
synthesize_answer_or_none(resp) ==
    IF resp = "text" THEN "answer" ELSE Null

\* _synthesize_answer: the completion text stripped, or a bracketed string
synthesize_answer(resp) ==
    CASE resp = "text"   -> "answer"
      [] resp = "empty"  -> "[OpenAI returned an empty answer]"
      [] OTHER           -> "[Error synthesizing answer using OpenAI]"

SynthesisOutcomes == {"text", "error"}

(* ---------- metadata document in the object store ---------- *)

NoMetadata == [exists |-> FALSE, processing_status |-> Null]

MetadataDoc(status) == [exists |-> TRUE, processing_status |-> status]

(* ---------- control flow of the background tasks ---------- *)

\* the local variables of task t after a step: position, loop variable,
\* status argument, list read, document read, synthesized answer
FrameSlept(t, p, a, st, list, current, ans, seconds) ==
    /\ pc' = [pc EXCEPT ![t] = p]
    /\ attempt' = [attempt EXCEPT ![t] = a]
    /\ upd_status' = [upd_status EXCEPT ![t] = st]
    /\ interactions' = [interactions EXCEPT ![t] = list]
    /\ metadata' = [metadata EXCEPT ![t] = current]
    /\ final_answer' = [final_answer EXCEPT ![t] = ans]
    /\ slept' = [slept EXCEPT ![t] = seconds]

\* a step that is not a sleep
Frame(t, p, a, st, list, current, ans) ==
    FrameSlept(t, p, a, st, list, current, ans, 0)

\* the task moves on, its other local variables as they are
Goto(t, p) ==
    Frame(t, p, attempt[t], upd_status[t], interactions[t], metadata[t],
          final_answer[t])

\* a helper is entered: its loop variable starts at 0, its locals are fresh
Call(t, p, st) ==
    Frame(t, p, 0, st, <<>>, NoMetadata, final_answer[t])

\* variant: the wait starting at 2 seconds
backoff_from_two(a) == 2 ^ (a + 1)

\* time.sleep(2 ** attempt)
backoff(a) == 2 ^ a

\* the next attempt of the helper's retry loop, after a failed one and the
\* sleep that follows it
Retry(t, p) ==
    FrameSlept(t, p, attempt[t] + 1, upd_status[t], <<>>, NoMetadata,
               final_answer[t], backoff(attempt[t]))

\* the task function returns: its frame is gone
Finish(t) ==
    Frame(t, "done", 0, "none", <<>>, NoMetadata, Null)

\* where the task goes when a statement of its try block raises: the except
\* block of run_query_pipeline_async marks the interaction failed; the one
\* of run_full_pipeline_async first calls update_overall_processing_status
Handler(k) == IF k = "query" THEN "upd_get" ELSE "ovr_get"

\* the except block uses none of the locals of the try block
Raise(t) ==
    Frame(t, Handler(kind[t]), 0, "failed", <<>>, NoMetadata, Null)

\* the statement after add_interaction_to_s3
AfterAdd(k) == IF k = "query" THEN "load_meta" ELSE "process"

\* variant: the retry loops giving up one attempt early
LastButOne(a) == a >= retries - 2

\* the retry loops: range(retries), the last attempt re-raises
Last(a) == a = retries - 1

\* add_interaction_to_s3, lines 131-135: the list the new record is appended to
add_interaction_base(read_ok, obj) ==
    IF read_ok THEN pl_get_interactions_from_s3(obj) ELSE <<>>

\* variant: add_interaction_to_s3 without the return after the successful put
add_interaction_no_return(k) == "add_get"

\* add_interaction_to_s3, line 149: a successful put returns from the loop
add_interaction_after_put(k) == AfterAdd(k)

\* argument final_answer of the running update: the call with "failed"
\* passes none
AnswerArg(status, ans) == IF status = "completed" THEN ans ELSE Null

\* argument answer_timestamp of the running update
TimestampArg(status) == IF status = "completed" THEN "ts" ELSE Null

(* ---------- main.py ---------- *)

\* POST /api/query/async: builds the interaction and schedules the task.
\* interaction_id is a fresh uuid4: the ids are numbered in order of arrival
query_processed_video(t) ==
    /\ kind[t] = "none"
    /\ \A u \in Tasks : u < t => kind[u] # "none"
    /\ kind' = [kind EXCEPT ![t] = "query"]
    /\ Call(t, "add_get", "none")
    /\ UNCHANGED <<ingest_vars, pure_vars, s3_interactions, s3_metadata, poll_response>>

\* variant: the poll reporting a missing document like any other read error
PollStatusMissingIsError(outcome, current) ==
    IF outcome = "error" \/ ~current.exists
    THEN "ERROR_FETCHING_METADATA" ELSE current.processing_status

\* processing_status reported by the poll
PollStatus(outcome, current) ==
    CASE outcome = "error"  -> "ERROR_FETCHING_METADATA"
      [] ~current.exists        -> "PROCESSING"
      [] OTHER              -> current.processing_status

\* interactions reported by the poll
PollInteractions(outcome, obj) ==
    IF outcome = "error" THEN <<>> ELSE utils_get_interactions_from_s3(obj)

\* GET /api/query/status/{video_id}
get_query_status ==
    /\ \E m_out \in {"ok", "error"}, i_out \in {"ok", "error"} :
          poll_response' =
              [polled |-> TRUE,
               metadata_read |-> m_out,
               read_ok |-> (i_out = "ok"),
               processing_status |-> PollStatus(m_out, s3_metadata),
               interactions |-> PollInteractions(i_out, s3_interactions),
               stored |-> pl_get_interactions_from_s3(s3_interactions)]
    /\ UNCHANGED <<ingest_vars, pure_vars, s3_interactions, s3_metadata, kind, pc, attempt,
                   interactions, upd_status, metadata, final_answer, slept>>

(* ---------- add_interaction_to_s3 ---------- *)

\* lines 131-138: read (any error of the read gives the empty list), append
add_interaction_get(t) ==
    /\ pc[t] = "add_get"
    /\ \E read_ok \in BOOLEAN :
          Frame(t, "add_put", attempt[t], upd_status[t],
                Append(add_interaction_base(read_ok, s3_interactions),
                       NewInteraction(t)),
                metadata[t], final_answer[t])
    /\ UNCHANGED <<ingest_vars, pure_vars, s3_interactions, s3_metadata, kind, poll_response>>

\* lines 141-149: put_object succeeds; attempt keeps the number of the
\* attempt that returned until the next statement of the task has run
add_interaction_put_ok(t) ==
    /\ pc[t] = "add_put"
    /\ s3_interactions' = InteractionsBody(interactions[t])
    /\ Frame(t, add_interaction_after_put(kind[t]), attempt[t], "none",
             <<>>, NoMetadata, final_answer[t])
    /\ UNCHANGED <<ingest_vars, pure_vars, s3_metadata, kind, poll_response>>

\* lines 151-161: put_object raises
add_interaction_put_error(t) ==
    /\ pc[t] = "add_put"
    /\ IF Last(attempt[t]) THEN Raise(t) ELSE Retry(t, "add_get")
    /\ UNCHANGED <<ingest_vars, pure_vars, s3_interactions, s3_metadata, kind, poll_response>>

(* ---------- update_interaction_status_in_s3 ---------- *)

\* variant: the failure of the update to failed leaving the task function
AfterUpdateRaisePropagating(t) ==
    IF upd_status[t] = "completed" THEN Raise(t)
    ELSE Frame(t, "raised", 0, "none", <<>>, NoMetadata, Null)

\* a raise of the update after its last attempt: from the try block it
\* enters the except block, inside the except block it is only logged
AfterUpdateRaise(t) ==
    IF upd_status[t] = "completed" THEN Raise(t) ELSE Finish(t)

UpdateAttemptFailed(t) ==
    IF Last(attempt[t]) THEN AfterUpdateRaise(t) ELSE Retry(t, "upd_get")

\* lines 170-186: read, find the record, update it in the list read;
\* return without a put when the id is not in the list
update_interaction_get_ok(t) ==
    /\ pc[t] = "upd_get"
    /\ LET list == pl_get_interactions_from_s3(s3_interactions)
       IN  IF t \in Ids(list)
           THEN Frame(t, "upd_put", attempt[t], upd_status[t],
                      UpdateList(list, t, upd_status[t],
                                 AnswerArg(upd_status[t], final_answer[t]),
                                 TimestampArg(upd_status[t])),
                      metadata[t], final_answer[t])
           ELSE Finish(t)
    /\ UNCHANGED <<ingest_vars, pure_vars, s3_interactions, s3_metadata, kind, poll_response>>

\* the read raises (lines 199-209)
update_interaction_get_error(t) ==
    /\ pc[t] = "upd_get"
    /\ UpdateAttemptFailed(t)
    /\ UNCHANGED <<ingest_vars, pure_vars, s3_interactions, s3_metadata, kind, poll_response>>

\* lines 189-197: put_object succeeds
update_interaction_put_ok(t) ==
    /\ pc[t] = "upd_put"
    /\ s3_interactions' = InteractionsBody(interactions[t])
    /\ Finish(t)
    /\ UNCHANGED <<ingest_vars, pure_vars, s3_metadata, kind, poll_response>>

\* put_object raises (lines 199-209)
update_interaction_put_error(t) ==
    /\ pc[t] = "upd_put"
    /\ UpdateAttemptFailed(t)
    /\ UNCHANGED <<ingest_vars, pure_vars, s3_interactions, s3_metadata, kind, poll_response>>

(* ---------- _call_mcp ---------- *)

\* a text is the sequence of its pieces; an f-string "[...]" around a body
Bracketed(body) == <<"[">> \o body \o <<"]">>

\* the function returns the text
Returned(text) == [outcome |-> "returned", text |-> text]

\* the content lists of a tool result: text parts and parts of another type
PartLists ==
    UNION {[1..n -> {"text", "other"}] : n \in 0..MaxParts}

\* the shapes of what client.call_tool returns: a string, or an object with
\* or without an isError flag set, whose content is missing, None or a list
ToolResults ==
    {[shape |-> "str", content |-> "absent", parts |-> <<>>, isError |-> FALSE]}
    \cup {[shape |-> "object", content |-> c, parts |-> <<>>, isError |-> e] :
             c \in {"absent", "none"}, e \in BOOLEAN}
    \cup {[shape |-> "object", content |-> "list", parts |-> ps, isError |-> e] :
             ps \in PartLists, e \in BOOLEAN}

\* the loop over the content: part.text + "\n" of every text part, stripped
RECURSIVE current_tool_text(_)
current_tool_text(parts) ==
    IF parts = <<>> THEN <<>>
    ELSE (IF Head(parts) = "text" THEN <<"part.text">> ELSE <<>>)
         \o current_tool_text(Tail(parts))

\* result parsing of the rule-based branch
parse_rule_based(result) ==
    IF result.shape = "object" /\ result.content = "list"
    THEN current_tool_text(result.parts)
    ELSE IF result.shape = "str"
    THEN <<"result">>
    ELSE IF /\ result.shape = "object"
            /\ result.isError
            /\ result.content = "list"
    THEN Bracketed(<<"Tool Error: ">> \o current_tool_text(result.parts))
    ELSE Bracketed(<<"Tool '", "selected_tool",
                     "' returned unexpected result structure">>)

\* the rule-based branch: the tool is called and its result parsed; any
\* exception of the call is turned into text
run_tool_rule_based(c) ==
    IF c.executed
    THEN parse_rule_based(c.result)
    ELSE Bracketed(<<"Error executing rule-based tool '", "selected_tool",
                     "': ", "e">>)

\* text extraction of _select_and_run_tool_llm_based; iterating a content
\* that is missing or None raises inside the inner try
parse_llm_based(result) ==
    IF /\ result.shape = "object"
       /\ result.content = "list"
       /\ result.parts # <<>>
    THEN current_tool_text(result.parts)
    ELSE IF result.shape = "object" /\ result.isError
    THEN IF result.content = "list"
         THEN Bracketed(<<"Tool Error: ">> \o current_tool_text(result.parts))
         ELSE Bracketed(<<"Error executing tool '", "tool_name", "': ", "e">>)
    ELSE Bracketed(<<"Tool '", "tool_name", "' returned no information">>)

\* _select_and_run_tool_llm_based
select_and_run_tool_llm_based(c) ==
    IF ~c.anthropic_client
    THEN Bracketed(<<"Error: Anthropic client not configured">>)
    ELSE IF c.tools = "raises"
    THEN Bracketed(<<"Unexpected error during LLM-based tool process: ", "e">>)
    ELSE IF c.tools = "none"
    THEN Bracketed(<<"Error: No tools available from MCP server">>)
    ELSE IF c.selection = "AnthropicAPIError"
    THEN Bracketed(<<"Error interacting with Anthropic API: ", "ae">>)
    ELSE IF c.selection = "Exception"
    THEN Bracketed(<<"Unexpected error during LLM-based tool process: ", "e">>)
    ELSE IF c.selection = "tool_use"
    THEN IF c.executed
         THEN parse_llm_based(c.result)
         ELSE Bracketed(<<"Error executing tool '", "tool_name", "': ", "e">>)
    ELSE IF c.selection = "text"
    THEN <<"content_block.text">>
    ELSE Bracketed(<<"LLM did not select or run a tool">>)

\* the content blocks of a response of the selection model: tool_use blocks
\* naming a tool, text blocks, blocks of another type
ContentBlocks ==
    [type : {"tool_use"}, value : {"perplexity_ask", "perplexity_research"}]
    \cup [type : {"text"}, value : {"text_a", "text_b"}]
    \cup [type : {"thinking"}, value : {"thought"}]

\* the responses: up to MaxBlocks content blocks
Contents == UNION {[1..n -> ContentBlocks] : n \in 0..MaxBlocks}

\* variant: the loop over the content blocks without its break
RECURSIVE tools_of_every_block(_)
tools_of_every_block(blocks) ==
    IF blocks = <<>> THEN <<>>
    ELSE (IF Head(blocks).type = "tool_use" THEN <<Head(blocks).value>>
          ELSE <<>>) \o tools_of_every_block(Tail(blocks))

\* the loop over the content blocks: the tool of the first tool_use block is
\* called and the loop is left
RECURSIVE tools_called(_)
tools_called(blocks) ==
    IF blocks = <<>> THEN <<>>
    ELSE IF Head(blocks).type = "tool_use" THEN <<Head(blocks).value>>
    ELSE tools_called(Tail(blocks))

\* the loop run when no tool was called: the text of the first text block
RECURSIVE direct_text(_)
direct_text(blocks) ==
    IF blocks = <<>> THEN <<>>
    ELSE IF Head(blocks).type = "text" THEN <<Head(blocks).value>>
    ELSE direct_text(Tail(blocks))

\* what the response comes to in _select_and_run_tool_llm_based
selection_of(blocks) ==
    IF tools_called(blocks) # <<>> THEN "tool_use"
    ELSE IF direct_text(blocks) # <<>> THEN "text"
    ELSE "nothing"

\* the processing of a response: the text returned and the tools called
process_response(blocks, executed, result) ==
    LET calls == tools_called(blocks)
        c == [url |-> "full", use_llm_selection |-> TRUE, transport |-> "ok",
              anthropic_client |-> TRUE, tools |-> "some",
              selection |-> selection_of(blocks), executed |-> executed,
              result |-> result]
    IN  [called |-> TRUE, content |-> blocks, tool_calls |-> calls,
         text |-> IF calls = <<>> /\ direct_text(blocks) # <<>>
                  THEN direct_text(blocks)
                  ELSE select_and_run_tool_llm_based(c)]

LlmCall ==
    /\ ~llm.called
    /\ \E blocks \in Contents, executed \in BOOLEAN, result \in ToolResults :
          llm' = process_response(blocks, executed, result)
    /\ UNCHANGED <<backend_vars, ingest_vars, retrieval, mcp, selection, segmentation, captioning, pool, context>>

\* variant: an error of the transport leaving _call_mcp
transport_error_propagates(e) == [outcome |-> "raised", text |-> <<>>]

\* the except clauses around the client session
on_transport_error(e) ==
    Returned(
       IF e = "ConnectError"
       THEN Bracketed(<<"Error: Connection failed to MCP server at ",
                        "mcp_sse_url">>)
       ELSE IF e = "HTTPStatusError"
       THEN Bracketed(<<"Error: HTTP ", "status_code", " from MCP server">>)
       ELSE IF e = "TimeoutError"
       THEN Bracketed(<<"Error: Timeout interacting with MCP server">>)
       ELSE Bracketed(<<"Unexpected error interacting with MCP server: ", "e">>))

\* _call_mcp: the configured URL is checked, the client connects, and one of
\* the two selection strategies runs the tool
call_mcp(c) ==
    IF c.url = "unset"
    THEN Returned(Bracketed(<<"Error: MCP Server URL not configured">>))
    ELSE IF c.url = "no_scheme"
    THEN Returned(Bracketed(<<"Error: Invalid MCP Server URL format">>))
    ELSE IF c.transport # "ok"
    THEN on_transport_error(c.transport)
    ELSE IF c.use_llm_selection
    THEN Returned(select_and_run_tool_llm_based(c))
    ELSE Returned(run_tool_rule_based(c))

\* the calls: the URL unset, without http(s)://, with a host only or with a
\* path; the strategy; what the transport, the selection model and the tool
\* provider do
McpCalls ==
    [url : {"unset", "no_scheme", "host_only", "full"},
     use_llm_selection : BOOLEAN,
     transport : {"ok", "ConnectError", "HTTPStatusError", "TimeoutError",
                  "Exception"},
     anthropic_client : BOOLEAN,
     tools : {"some", "none", "raises"},
     selection : {"tool_use", "text", "nothing", "AnthropicAPIError",
                  "Exception"},
     executed : BOOLEAN,
     result : ToolResults]

\* how a call of _call_mcp can end
McpOutcomes == {call_mcp(c).outcome : c \in McpCalls}

McpCall ==
    /\ mcp.outcome = "none"
    /\ \E c \in McpCalls :
          mcp' = [outcome |-> call_mcp(c).outcome, call |-> c,
                  text |-> call_mcp(c).text]
    /\ UNCHANGED <<backend_vars, ingest_vars, retrieval, selection, segmentation, captioning, pool, llm, context>>

(* ---------- _select_perplexity_tool_rule_based ---------- *)

\* a text is its words in order; a keyword is one word or several in a row
research_keywords ==
    {<<"research">>, <<"analyze">>, <<"study">>, <<"investigate">>,
     <<"comprehensive">>, <<"detailed">>, <<"in-depth">>, <<"thorough">>,
     <<"scholarly">>, <<"academic">>, <<"compare">>, <<"contrast">>,
     <<"literature">>, <<"history", "of">>, <<"development", "of">>,
     <<"evidence">>, <<"sources">>, <<"references">>, <<"citations">>,
     <<"papers">>}

deep_research_keywords == {<<"Deep", "Research">>, <<"DeepResearch">>}

reasoning_keywords ==
    {<<"why">>, <<"how">>, <<"how", "does">>, <<"explain">>, <<"reasoning">>,
     <<"logic">>, <<"analyze">>, <<"solve">>, <<"problem">>, <<"prove">>,
     <<"calculate">>, <<"evaluate">>, <<"assess">>, <<"implications">>,
     <<"consequences">>, <<"effects", "of">>, <<"causes", "of">>,
     <<"steps", "to">>, <<"method", "for">>, <<"approach", "to">>,
     <<"strategy">>, <<"solution">>}

\* str.lower on a word
lower(word) ==
    CASE word = "Deep"         -> "deep"
      [] word = "Research"     -> "research"
      [] word = "DeepResearch" -> "deepresearch"
      [] word = "Why"          -> "why"
      [] OTHER                 -> word

\* query.lower()
query_lower(query) == [i \in 1..Len(query.head) |-> lower(query.head[i])]

\* keyword in text
keyword_in(keyword, text) ==
    \E i \in 1..(Len(text) - Len(keyword) + 1) :
       SubSeq(text, i, i + Len(keyword) - 1) = keyword

\* sum(1 for keyword in keywords if keyword in query_lower)
keyword_count(keywords, text) ==
    Cardinality({k \in keywords : keyword_in(k, text)})

\* len(query.split()): the words written out and the plain words after them
word_count(query) == Len(query.head) + query.filler

is_long_query(query) == word_count(query) > long_query_words

research_score(query) ==
    keyword_count(research_keywords, query_lower(query))
    + (IF is_long_query(query) THEN 1 ELSE 0)

\* variant: the deep-research keywords looked for in the query as written
deep_research_score_as_written(query) ==
    keyword_count(deep_research_keywords, query.head)

\* the deep-research keywords, written with capitals, are looked for in the
\* lower-cased query
deep_research_score(query) ==
    keyword_count(deep_research_keywords, query_lower(query))

reasoning_score(query) ==
    keyword_count(reasoning_keywords, query_lower(query))
    + (IF /\ query.head # <<>>
          /\ lower(query.head[1]) \in {"why", "how"}
          /\ word_count(query) > 5
       THEN 1 ELSE 0)

select_perplexity_tool_rule_based(query) ==
    IF \/ deep_research_score(query) >= 1
       \/ research_score(query) >= 3
       \/ research_score(query) >= 2 /\ is_long_query(query)
    THEN "perplexity_research"
    ELSE IF reasoning_score(query) >= 2
    THEN "perplexity_reason"
    ELSE "perplexity_ask"

\* the words a query is written with
Vocabulary ==
    {"Deep", "Research", "study", "compare", "Why", "how", "does", "explain",
     "video"}

\* the queries: up to MaxWords words, alone or followed by as many plain
\* words as make a long query
Queries ==
    [head : UNION {[1..n -> Vocabulary] : n \in 0..MaxWords},
     filler : {0, long_query_words}]

SelectCall ==
    /\ ~selection.called
    /\ \E query \in Queries :
          selection' = [called |-> TRUE, query |-> query,
                        tool |-> select_perplexity_tool_rule_based(query)]
    /\ UNCHANGED <<backend_vars, ingest_vars, retrieval, mcp, segmentation, captioning, pool, llm, context>>

(* ---------- chunk_video_and_generate_metadata: the scene list ---------- *)

\* frame rates are held in hundredths of a frame per second
FrameRates == {2400, 2500, 2997, 3000}

\* int(fixed_chunk_duration * frame_rate)
chunk_len_frames(frame_rate) == (fixed_chunk_duration * frame_rate) \div 100

\* math.ceil(a / b) for positive b
Ceil(a, b) == (a + b - 1) \div b

Min(a, b) == IF a <= b THEN a ELSE b

\* the fallback: the windows of range(num_fixed_chunks), the ones without a
\* frame left out
fixed_windows(frame_rate, duration_frames) ==
    LET len == chunk_len_frames(frame_rate)
        num_fixed_chunks == Ceil(duration_frames, len)
        window(i) == [start_frame |-> i * len,
                      end_frame |-> Min((i + 1) * len, duration_frames)]
        kept(w) == ~(w.start_frame >= w.end_frame)
    IN  SelectSeq([k \in 1..num_fixed_chunks |-> window(k - 1)], kept)

\* the list of the scene manager: n scenes that cover the video
detected_scenes(n, duration_frames) ==
    [k \in 1..n |-> [start_frame |-> ((k - 1) * duration_frames) \div n,
                     end_frame |-> (k * duration_frames) \div n]]

\* the scene list after the fallback logic
scene_list_of(frame_rate, duration_frames, detected) ==
    IF detected <= 1
    THEN fixed_windows(frame_rate, duration_frames)
    ELSE detected_scenes(detected, duration_frames)

\* variant: the chunks numbered by the index of enumerate
scene_number_from_zero(i) == i

\* scene_number of the i-th element of enumerate(scene_list), i from 0
scene_number(i) == i + 1

\* chunks_metadata
chunks_metadata(scene_list) ==
    [k \in 1..Len(scene_list) |->
        [chunk_number |-> scene_number(k - 1),
         start_frame |-> scene_list[k].start_frame,
         end_frame |-> scene_list[k].end_frame]]

\* the segmentation of one video; the document is written with the chunks
\* unless the scene list is empty
SegmentCall ==
    /\ ~segmentation.called
    /\ \E frame_rate \in FrameRates, duration_frames \in 1..MaxFrames,
          detected \in 0..MaxScenes :
          LET scene_list == scene_list_of(frame_rate, duration_frames, detected)
          IN  segmentation' =
                 [called |-> TRUE, frame_rate |-> frame_rate,
                  duration_frames |-> duration_frames, detected |-> detected,
                  written |-> scene_list # <<>>,
                  chunks |-> chunks_metadata(scene_list)]
    /\ UNCHANGED <<backend_vars, ingest_vars, retrieval, mcp, selection, captioning, pool, llm, context>>

(* ---------- _process_single_chunk_for_captioning ---------- *)
\* what one attempt (upload, wait for processing, generate) comes to: a
\* caption, an empty caption, or an exception of the named class; "Exception"
\* is the one raised when the uploaded file's state is not ACTIVE
AttemptOutcomes ==
    {"caption", "empty", "TimeoutError", "DeadlineExceeded",
     "ResourceExhausted", "ServiceUnavailable", "InvalidArgument",
     "Unauthenticated", "Exception"}

\* the class of the exception an attempt raises; an empty caption raises
\* ValueError
exception_of(outcome) ==
    IF outcome = "empty" THEN "ValueError" ELSE outcome

\* the classes an exception of class c is an instance of, below Exception:
\* ClientError is the class of the 4xx errors, ServerError of the 5xx errors
Bases(c) ==
    CASE c = "ResourceExhausted"  -> {c, "TooManyRequests", "ClientError"}
      [] c = "InvalidArgument"    -> {c, "BadRequest", "ClientError"}
      [] c = "Unauthenticated"    -> {c, "Unauthorized", "ClientError"}
      [] c = "ServiceUnavailable" -> {c, "ServerError"}
      [] c = "DeadlineExceeded"   -> {c, "GatewayTimeout", "ServerError"}
      [] c = "Exception"          -> {}
      [] OTHER                    -> {c}

\* the classes of the first except clause
retryable_classes ==
    {"RetryError", "DeadlineExceeded", "ServiceUnavailable", "ServerError",
     "ResourceExhausted", "ClientError", "TimeoutError", "WriteTimeout",
     "ReadTimeout", "KeyError", "ValueError"}

\* the exception is caught by the first except clause
is_retryable(c) == Bases(c) \cap retryable_classes # {}

\* the attempts that got past client.files.upload: an attempt that gives a
\* caption, an empty caption or a file that is not ACTIVE has uploaded the
\* file; an exception of the other classes comes from the upload itself or
\* from a later request
Uploads(outcome) ==
    IF outcome \in {"caption", "empty", "Exception"} THEN {TRUE}
    ELSE BOOLEAN

\* variant: the uploaded file deleted only after the attempt gave a caption
delete_after_caption(uploaded_file, outcome) ==
    uploaded_file /\ outcome = "caption"

\* the finally clause: client.files.delete is called when the attempt has
\* an uploaded file, whatever the attempt came to
delete_in_finally(uploaded_file, outcome) == uploaded_file

\* one iteration of the loop over range(CAPTION_MAX_RETRIES)
CaptionAttempt ==
    /\ ~captioning.returned
    /\ captioning.attempts_made < CAPTION_MAX_RETRIES
    /\ \E outcome \in AttemptOutcomes : \E uploaded_file \in Uploads(outcome) :
          LET attempt_no == captioning.attempts_made
              goes_on == /\ outcome # "caption"
                         /\ is_retryable(exception_of(outcome))
                         /\ attempt_no < CAPTION_MAX_RETRIES - 1
          IN  captioning' =
                 [attempts_made |-> attempt_no + 1,
                  outcomes |-> Append(captioning.outcomes, outcome),
                  returned |-> ~goes_on,
                  caption |-> IF outcome = "caption" THEN "caption" ELSE Null,
                  uploaded_file |-> uploaded_file,
                  delete_issued |-> delete_in_finally(uploaded_file, outcome)]
    /\ UNCHANGED <<backend_vars, ingest_vars, retrieval, mcp, selection, segmentation, pool, llm, context>>

(* ---------- generate_captions_and_summary: the worker pool ---------- *)
\* the caption of no file
NoCaption == 0

\* the segments of the document, by chunk name
Segments == 1..NumSegments

\* the caption the provider gives for the file of segment k
CaptionOf(k) == k

\* what the worker of a file comes to: the caption of its file, None after
\* its attempts, or an exception out of future.result()
WorkerResults == {"caption", "none", "exception"}

\* the caption kept for a worker's result
caption_of_result(k, result) ==
    IF result = "caption" THEN CaptionOf(k) ELSE NoCaption

\* variant: the result filed under the name of the chunk submitted at the
\* position at which the future completed
key_by_completion(chunk, position, submitted) ==
    (CHOOSE s \in [1..Cardinality(submitted) -> submitted] :
        \A i, j \in 1..Cardinality(submitted) : i < j => s[i] < s[j])[position]

\* the key of caption_map: the stem of future_to_chunk[future]
chunk_name_no_ext(chunk, position, submitted) == chunk

\* the chunks without a caption are submitted to the executor; the chunks
\* not submitted hold the caption of their own file
PoolSubmit ==
    /\ pool.phase = "idle"
    /\ \E submitted \in SUBSET Segments \ {{}} :
       \E results \in [submitted -> WorkerResults] :
          pool' = [phase |-> "running", chunks_to_process |-> submitted,
                   results |-> results, completed |-> <<>>,
                   caption_map |-> [k \in {} |-> NoCaption],
                   captions |-> [k \in Segments |->
                                   IF k \in submitted THEN NoCaption
                                   ELSE CaptionOf(k)]]
    /\ UNCHANGED <<backend_vars, ingest_vars, retrieval, mcp, selection, segmentation, captioning, llm, context>>

\* as_completed yields the future of a chunk, in any order: its result is
\* stored in caption_map
PoolComplete ==
    /\ pool.phase = "running"
    /\ \E chunk \in pool.chunks_to_process :
          /\ \A n \in 1..Len(pool.completed) : pool.completed[n] # chunk
          /\ LET position == Len(pool.completed) + 1
                 key == chunk_name_no_ext(chunk, position,
                                          pool.chunks_to_process)
                 caption == caption_of_result(chunk, pool.results[chunk])
             IN  pool' = [pool EXCEPT
                    !.completed = Append(@, chunk),
                    !.caption_map =
                        [k \in DOMAIN @ \cup {key} |->
                            IF k = key THEN caption ELSE @[k]]]
    /\ UNCHANGED <<backend_vars, ingest_vars, retrieval, mcp, selection, segmentation, captioning, llm, context>>

\* after the executor has shut down: the captions of caption_map are set on
\* the chunks of the same name
PoolUpdate ==
    /\ pool.phase = "running"
    /\ Len(pool.completed) = Cardinality(pool.chunks_to_process)
    /\ pool' = [pool EXCEPT
          !.phase = "updated",
          !.captions = [k \in Segments |->
                          IF k \in DOMAIN pool.caption_map
                          THEN pool.caption_map[k] ELSE @[k]]]
    /\ UNCHANGED <<backend_vars, ingest_vars, retrieval, mcp, selection, segmentation, captioning, llm, context>>

(* ---------- _assemble_video_context: the time hints ---------- *)
\* a normalized time is n / TimeSteps, n in 0..TimeSteps; the thresholds
\* 0.15 and 0.85 are beginning_until and end_from hundredths
at_most(n, hundredths) == 100 * n <= hundredths * TimeSteps

at_least(n, hundredths) == 100 * n >= hundredths * TimeSteps

\* variant: the beginning ending short of 0.15
starts_before_threshold(norm_start) ==
    ~at_least(norm_start, beginning_until)

\* norm_start <= 0.15
starts_near_beginning(norm_start) == at_most(norm_start, beginning_until)

\* norm_end >= 0.85
ends_near_end(norm_end) == at_least(norm_end, end_from)

\* the hints of a clip, in the order they are appended
time_hints(is_valid_start, is_valid_end, norm_start, norm_end) ==
    IF is_valid_start /\ is_valid_end
    THEN LET hints == (IF starts_near_beginning(norm_start)
                       THEN <<"near the beginning">> ELSE <<>>)
                      \o (IF ends_near_end(norm_end)
                          THEN <<"near the end">> ELSE <<>>)
         IN  IF /\ hints = <<>>
                /\ ~at_most(norm_start, beginning_until)
                /\ ~at_least(norm_end, end_from)
             THEN <<"around the middle">>
             ELSE hints
    ELSE <<>>

\* the hints of one retrieved clip, whose normalized times are numbers or
\* are missing
HintCall ==
    /\ ~context.called
    /\ \E is_valid_start \in BOOLEAN, is_valid_end \in BOOLEAN,
          norm_start \in 0..TimeSteps, norm_end \in 0..TimeSteps :
          /\ ~is_valid_start => norm_start = 0
          /\ ~is_valid_end => norm_end = 0
          /\ context' =
                [called |-> TRUE, is_valid_start |-> is_valid_start,
                 is_valid_end |-> is_valid_end, norm_start |-> norm_start,
                 norm_end |-> norm_end,
                 hints |-> time_hints(is_valid_start, is_valid_end,
                                      norm_start, norm_end)]
    /\ UNCHANGED <<backend_vars, ingest_vars, retrieval, mcp, selection, segmentation, captioning, pool, llm>>

(* ---------- run_query_pipeline_async, steps 2-7 ---------- *)

\* variant: get_video_metadata_from_s3 returning an empty document for a
\* missing key
metadata_or_default(read_ok, obj) == read_ok

\* get_video_metadata_from_s3 returns the document: the get_object succeeds
\* and the key exists; it raises in every other case
metadata_returned(read_ok, obj) == read_ok /\ obj.exists

\* step 2: get_video_metadata_from_s3; a missing document and a read error raise
load_video_metadata(t) ==
    /\ pc[t] = "load_meta"
    /\ \E read_ok \in BOOLEAN :
          IF metadata_returned(read_ok, s3_metadata)
          THEN Call(t, "retrieve", "none")
          ELSE Raise(t)
    /\ UNCHANGED <<ingest_vars, pure_vars, s3_interactions, s3_metadata, kind, poll_response>>

\* steps 3-4: _retrieve_relevant_chunks raises when a client is missing or
\* the query cannot be embedded; otherwise the context is assembled
retrieve_relevant_chunks(t) ==
    /\ pc[t] = "retrieve"
    /\ \E raises \in BOOLEAN :
          IF raises THEN Raise(t) ELSE Goto(t, "call_mcp")
    /\ UNCHANGED <<ingest_vars, pure_vars, s3_interactions, s3_metadata, kind, poll_response>>

\* steps 5-7: await _call_mcp, then _synthesize_answer on whatever text it
\* returned, then the call of the update with "completed"
call_mcp_and_synthesize(t) ==
    /\ pc[t] = "call_mcp"
    /\ \E outcome \in McpOutcomes, resp \in SynthesisOutcomes :
          IF outcome = "raised"
          THEN Raise(t)
          ELSE Frame(t, "upd_get", 0, "completed", <<>>, NoMetadata,
                     synthesize_answer(resp))
    /\ UNCHANGED <<ingest_vars, pure_vars, s3_interactions, s3_metadata, kind, poll_response>>

(* ---------- _retrieve_relevant_chunks ---------- *)

\* a match whose metadata has no chunk_number
NoChunkNumber == 0

\* float('inf'), the sort key of a match without chunk_number
Inf == MaxChunkNumber + 1

\* the key of retrieved_chunks.sort
chunk_number_key(match) ==
    IF match.chunk_number = NoChunkNumber THEN Inf ELSE match.chunk_number

\* x put behind the elements of a sorted list whose key is not larger
RECURSIVE InsertByKey(_, _)
InsertByKey(x, sorted) ==
    IF sorted = <<>> THEN <<x>>
    ELSE IF chunk_number_key(Head(sorted)) <= chunk_number_key(x)
    THEN <<Head(sorted)>> \o InsertByKey(x, Tail(sorted))
    ELSE <<x>> \o sorted

\* list.sort(key=...): ascending and stable
RECURSIVE SortedByKey(_)
SortedByKey(list) ==
    IF list = <<>> THEN <<>>
    ELSE InsertByKey(list[Len(list)], SortedByKey(SubSeq(list, 1, Len(list) - 1)))

\* variant: the matches handed back as the index returned them
matches_as_returned(list) == list

\* the matches, when there are any, are sorted by chunk_number
sort_by_chunk_number(list) == SortedByKey(list)

\* the videos whose vectors share the index
Videos == 1..NumVideos

\* the vectors of the index: the video_id and the chunk_number (or none) of
\* the metadata they were upserted with
Vectors ==
    [video_id : Videos, chunk_number : (1..MaxChunkNumber) \cup {NoChunkNumber}]

\* the contents of the index, most similar to the query first
IndexRankings ==
    UNION {[1..n -> Vectors] : n \in 0..(top_k + 1)}

\* variant: the query of the index without the video_id filter
query_unfiltered(ranking, video_id) == ranking

\* filter={"video_id": video_id}: the vectors whose metadata has that video_id
query_filter(ranking, video_id) ==
    SelectSeq(ranking, LAMBDA v : v.video_id = video_id)

\* PINECONE_INDEX.query: the k most similar vectors that pass the filter, in
\* rank order, with their metadata
pinecone_query(ranking, video_id, k) ==
    LET passing == query_filter(ranking, video_id)
    IN  [i \in 1..Min(k, Len(passing)) |->
            [rank |-> i, chunk_number |-> passing[i].chunk_number,
             video_id |-> passing[i].video_id]]

\* the call: both clients must be there and the query must be embedded, or
\* it raises; an error of the index query gives the empty list
RetrieveCall ==
    /\ retrieval.outcome = "none"
    /\ \E clients \in BOOLEAN, embedded \in BOOLEAN, queried \in BOOLEAN,
          video_id \in Videos, ranking \in IndexRankings :
          LET matches == pinecone_query(ranking, video_id, top_k) IN
          retrieval' =
             [outcome |-> IF clients /\ embedded THEN "returned" ELSE "raised",
              video_id |-> video_id,
              index |-> IF clients /\ embedded /\ queried THEN ranking ELSE <<>>,
              clients |-> clients,
              embedded |-> embedded,
              queried |-> queried,
              matches |-> IF clients /\ embedded /\ queried THEN matches ELSE <<>>,
              retrieved_chunks |->
                 IF clients /\ embedded /\ queried
                 THEN sort_by_chunk_number(matches) ELSE <<>>]
    /\ UNCHANGED <<backend_vars, ingest_vars, mcp, selection, segmentation, captioning, pool, llm, context>>

(* ---------- run_full_pipeline_async ---------- *)

\* the task is started for a new video (no metadata document yet)
run_full_pipeline_async(t) ==
    /\ kind[t] = "none"
    /\ \A u \in Tasks : kind[u] # "full"
    /\ ~s3_metadata.exists
    /\ kind' = [kind EXCEPT ![t] = "full"]
    /\ Call(t, "init_put", "none")
    /\ UNCHANGED <<ingest_vars, pure_vars, s3_interactions, s3_metadata, poll_response>>

\* lines 912-926: the initial document is put directly
put_initial_metadata(t) ==
    /\ pc[t] = "init_put"
    /\ \E put_ok \in BOOLEAN :
          IF put_ok
          THEN /\ s3_metadata' = MetadataDoc("PROCESSING")
               /\ Call(t, "add_get", "none")
          ELSE /\ Raise(t)
               /\ UNCHANGED s3_metadata
    /\ UNCHANGED <<ingest_vars, pure_vars, s3_interactions, kind, poll_response>>

\* lines 937-943: _download_video, _upload_to_s3, _chunk_video,
\* _generate_captions_and_summary, _index_captions, in this order
video_processing_steps(t) ==
    /\ pc[t] = "process"
    /\ Call(t, "fin_put", "none")
    /\ UNCHANGED <<ingest_vars, pure_vars, s3_interactions, s3_metadata, kind, poll_response>>

\* status of the document put at lines 949-966
FinalizedStatus == "FINISHED"

\* lines 949-967: the complete document is put directly
put_final_metadata(t) ==
    /\ pc[t] = "fin_put"
    /\ \E put_ok \in BOOLEAN :
          IF put_ok
          THEN /\ s3_metadata' = MetadataDoc(FinalizedStatus)
               /\ Goto(t, "retrieve")
          ELSE /\ Raise(t)
               /\ UNCHANGED s3_metadata
    /\ UNCHANGED <<ingest_vars, pure_vars, s3_interactions, kind, poll_response>>

(* ---------- update_overall_processing_status ---------- *)

\* lines 219-226: the document read (a minimal one when there is none)
\* with its processing_status replaced
OverallUpdated(current, overall_status) ==
    IF current.exists
    THEN [current EXCEPT !.processing_status = overall_status]
    ELSE MetadataDoc(overall_status)

\* a raise of update_overall_processing_status inside the except block
\* skips the update of the interaction (lines 1001-1007)
OverallAttemptFailed(t) ==
    IF Last(attempt[t]) THEN Finish(t) ELSE Retry(t, "ovr_get")

\* lines 219-226; a read error other than a missing key fails the attempt
update_overall_get(t) ==
    /\ pc[t] = "ovr_get"
    /\ \E read_ok \in BOOLEAN :
          IF read_ok
          THEN Frame(t, "ovr_put", attempt[t], upd_status[t], <<>>,
                     OverallUpdated(s3_metadata, "FAILED"), final_answer[t])
          ELSE OverallAttemptFailed(t)
    /\ UNCHANGED <<ingest_vars, pure_vars, s3_interactions, s3_metadata, kind, poll_response>>

\* lines 229-236; then line 1005, the update of the interaction
update_overall_put(t) ==
    /\ pc[t] = "ovr_put"
    /\ \E put_ok \in BOOLEAN :
          IF put_ok
          THEN /\ s3_metadata' = metadata[t]
               /\ Call(t, "upd_get", "failed")
          ELSE /\ OverallAttemptFailed(t)
               /\ UNCHANGED s3_metadata
    /\ UNCHANGED <<ingest_vars, pure_vars, s3_interactions, kind, poll_response>>

(* ---------- process_video_pipeline.py: the local document ---------- *)

NoDoc ==
    [exists |-> FALSE, processing_status |-> Null, chunks |-> <<>>,
     overall_summary |-> Null, indexing_status |-> Null,
     error_message |-> Null]

\* initial_json_data of download_video_from_url
InitialDoc == [NoDoc EXCEPT !.exists = TRUE, !.processing_status = "PROCESSING"]

\* a chunk is held by the state of its caption: "absent" (no key),
\* "none" (key present, value None), "text"
NewChunks(n) == [i \in 1..n |-> "absent"]

\* the external requests the stages make
ProcessingCalls ==
    {"download", "segmentation", "caption", "summary", "embedding",
     "fetch", "upsert"}

\* chunks_to_process, the chunks that got an embedding, fetch_failed and
\* upsert_failed before the indexing logic has run
NoIndexing ==
    [chunks_to_process |-> {}, embeddings |-> {}, fetch_failed |-> FALSE,
     upsert_failed |-> FALSE, vectors_to_upsert |-> <<>>, failed_batch |-> 0,
     upserted |-> {}]

\* no call of _retrieve_relevant_chunks has been made
NoRetrieval ==
    [outcome |-> "none", video_id |-> 1, index |-> <<>>, clients |-> TRUE,
     embedded |-> TRUE, queried |-> TRUE, matches |-> <<>>,
     retrieved_chunks |-> <<>>]

\* a call of _call_mcp with nothing going wrong
NoCall ==
    [url |-> "full", use_llm_selection |-> TRUE, transport |-> "ok",
     anthropic_client |-> TRUE, tools |-> "some", selection |-> "tool_use",
     executed |-> TRUE,
     result |-> [shape |-> "object", content |-> "list", parts |-> <<>>,
                 isError |-> FALSE]]

\* no call of _call_mcp has been made
NoMcp == [outcome |-> "none", call |-> NoCall, text |-> <<>>]

\* no call of _select_perplexity_tool_rule_based has been made
NoSelection == [called |-> FALSE, query |-> [head |-> <<>>, filler |-> 0],
                tool |-> "none"]

\* no segment is being captioned
NoCaptioning ==
    [attempts_made |-> 0, outcomes |-> <<>>, returned |-> FALSE,
     caption |-> Null, uploaded_file |-> FALSE, delete_issued |-> FALSE]

\* the worker pool before the caption stage has submitted anything
NoPool ==
    [phase |-> "idle", chunks_to_process |-> {}, results |-> <<>>,
     completed |-> <<>>, caption_map |-> <<>>, captions |-> <<>>]

\* no response of the selection model has been processed
NoLlm ==
    [called |-> FALSE, content |-> <<>>, tool_calls |-> <<>>,
     text |-> <<>>]

\* no clip has been given its time hints
NoContext ==
    [called |-> FALSE, is_valid_start |-> FALSE, is_valid_end |-> FALSE,
     norm_start |-> 0, norm_end |-> 0, hints |-> <<>>]

\* no segmentation has been made
NoSegmentation ==
    [called |-> FALSE, frame_rate |-> 0, duration_frames |-> 0,
     detected |-> 0, written |-> FALSE, chunks |-> <<>>]

IngestInit ==
    /\ video_file = "none"
    /\ doc = NoDoc
    /\ pinecone_index = {}
    /\ stage = "idle"
    /\ runs = 0
    /\ run_calls = {}
    /\ start_status = Null
    /\ data = Null
    /\ failed_stage = Null
    /\ indexing = NoIndexing
    /\ index_ended = FALSE
    /\ index_returned = "not_returned"
    /\ retrieval = NoRetrieval
    /\ mcp = NoMcp
    /\ selection = NoSelection
    /\ segmentation = NoSegmentation
    /\ captioning = NoCaptioning
    /\ pool = NoPool
    /\ llm = NoLlm
    /\ context = NoContext

\* variant: main_pipeline going on to the indexing after a stage that
\* returned None
StageFailedGoesOn(name) ==
    /\ stage' = "index"
    /\ failed_stage' = name

\* main_pipeline returns after a stage that returned None
StageFailed(name) ==
    /\ stage' = "idle"
    /\ failed_stage' = name

(* ---------- main_pipeline ---------- *)

\* the script is run on the URL of the video
main_pipeline ==
    /\ stage = "idle"
    /\ runs < MaxRuns
    /\ runs' = runs + 1
    /\ stage' = "download"
    /\ run_calls' = {}
    /\ start_status' = doc.processing_status
    /\ data' = Null
    /\ failed_stage' = Null
    /\ indexing' = NoIndexing
    /\ index_returned' = "not_returned"
    /\ UNCHANGED <<backend_vars, pure_vars, video_file, doc, pinecone_index, index_ended>>

\* Stage 1. The download is skipped when <video_id>.mp4 exists; a
\* successful download (of an mp4 or of another container) writes the
\* initial document over the existing one
download_video_from_url ==
    /\ stage = "download"
    /\ IF video_file = "mp4"
       THEN /\ doc' = IF doc.exists THEN doc ELSE InitialDoc
            /\ stage' = "chunk"
            /\ UNCHANGED <<video_file, run_calls, failed_stage, index_ended>>
       ELSE /\ run_calls' = run_calls \cup {"download"}
            /\ \E outcome \in {"error", "mp4", "other"} :
                  IF outcome = "error"
                  THEN /\ StageFailed("download")
                       /\ UNCHANGED <<video_file, doc, index_ended>>
                  ELSE /\ video_file' = outcome
                       /\ doc' = InitialDoc
                       /\ index_ended' = FALSE
                       /\ stage' = "chunk"
                       /\ UNCHANGED failed_stage
    /\ UNCHANGED <<backend_vars, pure_vars, indexing, pinecone_index, runs, start_status, data,
                   index_returned>>

\* the except block of chunk_video_and_generate_metadata
ChunkingFailedDoc(d) == [d EXCEPT !.error_message = "Chunking failed"]

\* Stage 2. Skipped when the document has chunks
chunk_video_and_generate_metadata ==
    /\ stage = "chunk"
    /\ IF doc.chunks # <<>>
       THEN /\ stage' = "caption"
            /\ UNCHANGED <<doc, run_calls, failed_stage>>
       ELSE /\ run_calls' = run_calls \cup {"segmentation"}
            /\ \E raised \in BOOLEAN, n \in 1..NumChunks :
                  IF raised
                  THEN /\ doc' = ChunkingFailedDoc(doc)
                       /\ StageFailed("chunk")
                  ELSE /\ doc' = [doc EXCEPT !.chunks = NewChunks(n)]
                       /\ stage' = "caption"
                       /\ UNCHANGED failed_stage
    /\ UNCHANGED <<backend_vars, pure_vars, indexing, video_file, pinecone_index, runs,
                   start_status, data, index_ended,
                   index_returned>>

\* variant: the caption stage without its check of the existing captions
all_chunks_have_caption_unchecked(chunks) == FALSE

all_chunks_have_caption(chunks) ==
    /\ chunks # <<>>
    /\ \A i \in 1..Len(chunks) : chunks[i] # "absent"

\* the chunks handed to the caption workers
chunks_to_caption(chunks) ==
    {i \in 1..Len(chunks) : chunks[i] \in {"absent", "none"}}

\* the chunks after a captioning pass: every chunk processed has the key
CaptionResults(chunks) ==
    {c \in [1..Len(chunks) -> {"text", "none"}] :
        \A i \in 1..Len(chunks) : chunks[i] = "text" => c[i] = "text"}

run_summary(summary) == summary = Null \/ summary = "error"

has_caption_text(chunks) == \E i \in 1..Len(chunks) : chunks[i] = "text"

\* Stage 3. A missing key, client or chunk directory returns None and
\* writes nothing; failed captions are stored as None and the stage goes on
generate_captions_and_summary ==
    /\ stage = "caption"
    /\ \E stage_ok \in BOOLEAN :
          IF ~stage_ok
          THEN /\ StageFailed("caption")
               /\ UNCHANGED <<doc, run_calls>>
          ELSE IF all_chunks_have_caption(doc.chunks) /\ doc.overall_summary # Null
          THEN /\ stage' = "index"
               /\ UNCHANGED <<doc, run_calls, failed_stage>>
          ELSE \E captioned \in
                    IF all_chunks_have_caption(doc.chunks)
                    THEN {doc.chunks} ELSE CaptionResults(doc.chunks) :
               \E summary \in
                    IF ~run_summary(doc.overall_summary)
                    THEN {doc.overall_summary}
                    ELSE IF has_caption_text(captioned)
                    THEN {"summary", "error"} ELSE {"error"} :
                  /\ doc' = [doc EXCEPT !.chunks = captioned,
                                        !.overall_summary = summary]
                  /\ run_calls' = run_calls
                        \cup (IF ~all_chunks_have_caption(doc.chunks)
                                 /\ chunks_to_caption(doc.chunks) # {}
                              THEN {"caption"} ELSE {})
                        \cup (IF run_summary(doc.overall_summary)
                                 /\ has_caption_text(captioned)
                              THEN {"summary"} ELSE {})
                  /\ stage' = "index"
                  /\ UNCHANGED failed_stage
    /\ UNCHANGED <<backend_vars, pure_vars, indexing, video_file, pinecone_index, runs,
                   start_status, data, index_ended,
                   index_returned>>

(* ---------- index_captions_in_pinecone ---------- *)

\* the statuses on which the indexing logic is not entered
SkipIndexing == {"COMPLETED", "SKIPPED_NO_CAPTIONS", "SKIPPED_ALREADY_INDEXED"}

\* variant: the write at the start of indexing also marking the video finished
IndexStartDocFinished(d) ==
    [d EXCEPT !.indexing_status = "IN_PROGRESS",
              !.processing_status = "FINISHED"]

\* the document written when the indexing logic is entered
IndexStartDoc(d) == [d EXCEPT !.indexing_status = "IN_PROGRESS"]

\* initialize_clients, the read of the document and the decision to index.
\* The indexing logic, the final update and the return of the path are all
\* in the else branch of the test of indexing_status: on a status that
\* skips the indexing the function ends without a return statement
index_captions_in_pinecone ==
    /\ stage = "index"
    /\ \E init_ok \in BOOLEAN :
          IF ~init_ok
          THEN /\ StageFailed("index")
               /\ index_returned' = "None"
               /\ UNCHANGED <<doc, run_calls, data>>
          ELSE /\ run_calls' = run_calls \cup {"describe_index_stats"}
               /\ UNCHANGED failed_stage
               /\ IF doc.indexing_status \in SkipIndexing
                  THEN /\ stage' = "idle"
                       /\ index_returned' = "None"
                       /\ UNCHANGED <<doc, data>>
                  ELSE /\ doc' = IndexStartDoc(doc)
                       /\ data' = IndexStartDoc(doc).indexing_status
                       /\ stage' = "index_run"
                       /\ UNCHANGED index_returned
    /\ UNCHANGED <<backend_vars, pure_vars, indexing, video_file, pinecone_index, runs,
                   start_status, index_ended>>

chunks_with_captions(chunks) == {i \in 1..Len(chunks) : chunks[i] = "text"}

\* variant: the status block reporting COMPLETED whatever failed
IndexingStatusIgnoringErrors(fetch_failed, embedding_failed, upsert_failed, to_process) ==
    "COMPLETED"

\* the status block at the end of the branch "if chunks_to_process:"
IndexingStatus(fetch_failed, embedding_failed, upsert_failed, to_process) ==
    IF upsert_failed \/ embedding_failed \/ fetch_failed
    THEN "COMPLETED_WITH_ERRORS"
    ELSE IF to_process # {} THEN "COMPLETED"
    ELSE "SKIPPED_ALREADY_INDEXED"

\* the chunks of a set in the order of the document
in_order(S) ==
    CHOOSE s \in [1..Cardinality(S) -> S] :
       \A i, j \in 1..Cardinality(S) : i < j => s[i] < s[j]

\* the number of the batch the k-th vector is sent in
batch_num(k) == ((k - 1) \div INDEXING_BATCH_SIZE) + 1

\* variant: the loop going on to the batches after the one that raised
upserted_skipping_failed(vectors, failed_batch) ==
    {vectors[k] : k \in {n \in 1..Len(vectors) : batch_num(n) # failed_batch}}

\* the vectors of the batches whose upsert returned: the loop over the
\* batches breaks at the batch that raises (failed_batch, 0 for none)
upserted_vectors(vectors, failed_batch) ==
    {vectors[k] : k \in {n \in 1..Len(vectors) :
                            failed_batch = 0 \/ batch_num(n) < failed_batch}}

\* the existing ids are fetched; when the fetch raises, every chunk with a
\* caption is taken as new
chunks_to_process(cwc, fetch_ok) ==
    IF fetch_ok THEN cwc \ pinecone_index ELSE cwc

\* fetch of the existing ids, embedding of the new captions, upsert in
\* batches.  A response whose upserted_count is not the length of the batch
\* marks the upsert failed and the loop goes on; what the index then holds
\* of the vectors sent is the provider's.  The status block is part of the
\* branch taken when there are chunks to process: with none,
\* indexing_status stays as set at the start
index_fetch_embed_upsert ==
    /\ stage = "index_run"
    /\ LET cwc == chunks_with_captions(doc.chunks)
       IN  IF cwc = {}
           THEN /\ data' = "SKIPPED_NO_CAPTIONS"
                /\ UNCHANGED <<pinecone_index, run_calls, indexing>>
           ELSE \E fetch_ok \in BOOLEAN, mismatch \in BOOLEAN :
                LET to_process == chunks_to_process(cwc, fetch_ok)
                IN  \E embedded \in SUBSET to_process :
                    LET vectors == in_order(embedded)
                        num_batches == Ceil(Len(vectors), INDEXING_BATCH_SIZE)
                    IN  \E failed_batch \in 0..num_batches :
                        LET sent == upserted_vectors(vectors, failed_batch)
                            upsert_failed == failed_batch # 0 \/ mismatch
                        IN  /\ mismatch => sent # {}
                            /\ indexing' =
                                  [chunks_to_process |-> to_process,
                                   embeddings |-> embedded,
                                   fetch_failed |-> ~fetch_ok,
                                   upsert_failed |-> upsert_failed,
                                   vectors_to_upsert |-> vectors,
                                   failed_batch |-> failed_batch,
                                   upserted |-> sent]
                            /\ data' =
                                  IF to_process = {} THEN data
                                  ELSE IndexingStatus(~fetch_ok,
                                                      embedded # to_process,
                                                      upsert_failed, to_process)
                            /\ \E stored \in (IF mismatch THEN SUBSET sent
                                               ELSE {sent}) :
                                  pinecone_index' = pinecone_index \cup stored
                       /\ run_calls' = run_calls \cup {"fetch"}
                             \cup (IF to_process # {} THEN {"embedding"} ELSE {})
                             \cup (IF embedded # {} THEN {"upsert"} ELSE {})
    /\ index_ended' = TRUE
    /\ stage' = "index_final"
    /\ UNCHANGED <<backend_vars, pure_vars, video_file, doc, runs, start_status,
                   failed_stage,
                   index_returned>>

\* variant: the final update marking a video indexed with errors as failed
FinalDocStrict(d, indexing_status) ==
    [d EXCEPT !.processing_status =
                  IF indexing_status = "COMPLETED_WITH_ERRORS"
                  THEN "FAILED" ELSE "FINISHED",
              !.indexing_status = indexing_status]

\* the final update: the document is read again and written as finished
FinalDoc(d, indexing_status) ==
    [d EXCEPT !.processing_status = "FINISHED",
              !.indexing_status = indexing_status]

index_final_update ==
    /\ stage = "index_final"
    /\ \E write_ok \in BOOLEAN :
          IF write_ok
          THEN /\ doc' = FinalDoc(doc, data)
               /\ stage' = "idle"
               /\ index_returned' = "path"
               /\ UNCHANGED failed_stage
          ELSE /\ StageFailed("index")
               /\ index_returned' = "None"
               /\ UNCHANGED doc
    /\ UNCHANGED <<backend_vars, pure_vars, indexing, video_file, pinecone_index, runs, run_calls,
                   start_status, data, index_ended>>

(* ---------- specifications ---------- *)

\* no background task has been scheduled, no poll has been answered
TasksInit ==
    /\ kind = [t \in Tasks |-> "none"]
    /\ pc = [t \in Tasks |-> "idle"]
    /\ attempt = [t \in Tasks |-> 0]
    /\ interactions = [t \in Tasks |-> <<>>]
    /\ upd_status = [t \in Tasks |-> "none"]
    /\ metadata = [t \in Tasks |-> NoMetadata]
    /\ final_answer = [t \in Tasks |-> Null]
    /\ slept = [t \in Tasks |-> 0]
    /\ poll_response = [polled |-> FALSE, metadata_read |-> "none",
                        read_ok |-> FALSE,
                        processing_status |-> Null,
                        interactions |-> <<>>, stored |-> <<>>]

BackendInit ==
    /\ s3_interactions = NoSuchKey
    /\ TasksInit

\* queries on a video that is processed, or on one that has no document
Init ==
    /\ BackendInit
    /\ s3_metadata \in {NoMetadata, MetadataDoc("FINISHED")}
    /\ IngestInit

HelperStep(t) ==
    \/ add_interaction_get(t)
    \/ add_interaction_put_ok(t)
    \/ add_interaction_put_error(t)
    \/ update_interaction_get_ok(t)
    \/ update_interaction_get_error(t)
    \/ update_interaction_put_ok(t)
    \/ update_interaction_put_error(t)
    \/ retrieve_relevant_chunks(t)
    \/ call_mcp_and_synthesize(t)

Next ==
    \E t \in Tasks :
       \/ query_processed_video(t)
       \/ load_video_metadata(t)
       \/ HelperStep(t)

Spec == Init /\ [][Next]_vars

\* the same tasks, polled by the client
NextPoll ==
    \/ Next
    \/ get_query_status

SpecPoll == Init /\ [][NextPoll]_vars

\* the lists a stored log can hold: records of distinct queries in any
\* order, each processing, completed with an answer, or failed
StoredRecords(id) ==
    {NewInteraction(id),
     UpdatedRecord(NewInteraction(id), "completed", "answer", "ts"),
     UpdatedRecord(NewInteraction(id), "failed", Null, Null)}

StoredLists ==
    UNION {{list \in [1..n -> UNION {StoredRecords(t) : t \in Tasks}] :
               \A i, j \in 1..n :
                  i # j => list[i].interaction_id # list[j].interaction_id} :
           n \in 0..NumQueries}

\* the status poll on every stored state of a video's two objects
InitStatus ==
    /\ TasksInit
    /\ s3_interactions \in
          {NoSuchKey} \cup {InteractionsBody(list) : list \in StoredLists}
    /\ s3_metadata \in {NoMetadata} \cup
          {MetadataDoc(st) : st \in {"PROCESSING", "FINISHED", "FAILED"}}
    /\ IngestInit

NextStatus == get_query_status

SpecStatus == InitStatus /\ [][NextStatus]_vars

\* one new video submitted to the full pipeline
InitFull ==
    /\ BackendInit
    /\ s3_metadata = NoMetadata
    /\ IngestInit

NextFull ==
    \E t \in Tasks :
       \/ run_full_pipeline_async(t)
       \/ put_initial_metadata(t)
       \/ video_processing_steps(t)
       \/ put_final_metadata(t)
       \/ update_overall_get(t)
       \/ update_overall_put(t)
       \/ HelperStep(t)

SpecFull == InitFull /\ [][NextFull]_vars

\* the ingestion script run on one video, up to MaxRuns times
InitIngest ==
    /\ BackendInit
    /\ s3_metadata = NoMetadata
    /\ IngestInit

NextIngest ==
    \/ main_pipeline
    \/ download_video_from_url
    \/ chunk_video_and_generate_metadata
    \/ generate_captions_and_summary
    \/ index_captions_in_pinecone
    \/ index_fetch_embed_upsert
    \/ index_final_update

SpecIngest == InitIngest /\ [][NextIngest]_vars

\* calls of _retrieve_relevant_chunks on every response of the index
InitRetrieve ==
    /\ BackendInit
    /\ s3_metadata = NoMetadata
    /\ IngestInit

NextRetrieve == RetrieveCall

SpecRetrieve == InitRetrieve /\ [][NextRetrieve]_vars

\* the rule-based selection on every query
InitSelect ==
    /\ BackendInit
    /\ s3_metadata = NoMetadata
    /\ IngestInit

NextSelect == SelectCall

SpecSelect == InitSelect /\ [][NextSelect]_vars

\* the segmentation on every video
InitSegment ==
    /\ BackendInit
    /\ s3_metadata = NoMetadata
    /\ IngestInit

NextSegment == SegmentCall

SpecSegment == InitSegment /\ [][NextSegment]_vars

\* the captioning of one segment on every behaviour of the provider
InitCaption ==
    /\ BackendInit
    /\ s3_metadata = NoMetadata
    /\ IngestInit

NextCaption == CaptionAttempt

SpecCaption == InitCaption /\ [][NextCaption]_vars

\* the worker pool of the caption stage on every set of chunks to caption,
\* every result of the workers and every order of completion
InitPool ==
    /\ BackendInit
    /\ s3_metadata = NoMetadata
    /\ IngestInit

NextPool == PoolSubmit \/ PoolComplete \/ PoolUpdate

SpecPool == InitPool /\ [][NextPool]_vars

\* the processing of every response of the selection model
InitLlm ==
    /\ BackendInit
    /\ s3_metadata = NoMetadata
    /\ IngestInit

NextLlm == LlmCall

SpecLlm == InitLlm /\ [][NextLlm]_vars

\* the time hints of every clip
InitHints ==
    /\ BackendInit
    /\ s3_metadata = NoMetadata
    /\ IngestInit

NextHints == HintCall

SpecHints == InitHints /\ [][NextHints]_vars

\* calls of _call_mcp on every configuration and every behaviour of the
\* transport, the selection model and the tool provider, and a query task
\* that has reached its own call of _call_mcp
InitMcp ==
    /\ s3_interactions = InteractionsBody(<<NewInteraction(1)>>)
    /\ s3_metadata = MetadataDoc("FINISHED")
    /\ kind = [t \in Tasks |-> IF t = 1 THEN "query" ELSE "none"]
    /\ pc = [t \in Tasks |-> IF t = 1 THEN "call_mcp" ELSE "idle"]
    /\ attempt = [t \in Tasks |-> 0]
    /\ interactions = [t \in Tasks |-> <<>>]
    /\ upd_status = [t \in Tasks |-> "none"]
    /\ metadata = [t \in Tasks |-> NoMetadata]
    /\ final_answer = [t \in Tasks |-> Null]
    /\ slept = [t \in Tasks |-> 0]
    /\ poll_response = [polled |-> FALSE, metadata_read |-> "none",
                        read_ok |-> FALSE,
                        processing_status |-> Null,
                        interactions |-> <<>>, stored |-> <<>>]
    /\ IngestInit

NextMcp ==
    \/ McpCall
    \/ \E t \in Tasks : call_mcp_and_synthesize(t)

SpecMcp == InitMcp /\ [][NextMcp]_vars

(* ---------- properties of the interaction log ---------- *)

\* the list held by the stored log
StoredLog == pl_get_interactions_from_s3(s3_interactions)

Terminal == {"completed", "failed"}

\* the records of a list that carry the id
RecordsOf(list, id) == {i \in 1..Len(list) : list[i].interaction_id = id}

\* C1: under any interleaving of query pipelines on one video, the stored
\* status of an interaction changes only from processing to completed or to
\* failed, and a stored completed or failed is never replaced by another
\* status by a later write to the log.
C1_StatusOnlyForward ==
    [][\A i \in 1..Len(StoredLog) : \A j \in 1..Len(StoredLog') :
          StoredLog[i].interaction_id = StoredLog'[j].interaction_id
          => \/ StoredLog'[j].status = StoredLog[i].status
             \/ /\ StoredLog[i].status = "processing"
                /\ StoredLog'[j].status \in Terminal]_vars

\* C2: once a record with an interaction_id is stored in the log, every
\* later stored state of the log still holds a record with that id, for any
\* interleaving of add_interaction_to_s3 and update_interaction_status_in_s3.
C2_NeverRemoved ==
    [][Ids(StoredLog) \subseteq Ids(StoredLog')]_vars

\* C3: every accepted query ends with its interaction stored in the log with
\* status completed or failed: when every background task has returned, each
\* of them has its record in the log with a terminal status.
C3_EndsTerminal ==
    (\A t \in Tasks : pc[t] = "done")
    => \A t \in Tasks :
          \E i \in RecordsOf(StoredLog, t) : StoredLog[i].status \in Terminal

\* C4: a status poll whose reads succeed returns an interactions list that
\* holds every interaction stored in the log, with the status stored for it.
C4_PollShowsStored ==
    (poll_response.polled /\ poll_response.read_ok)
    => \A i \in 1..Len(poll_response.stored) :
          \E j \in 1..Len(poll_response.interactions) :
             /\ poll_response.interactions[j].interaction_id
                   = poll_response.stored[i].interaction_id
             /\ poll_response.interactions[j].status
                   = poll_response.stored[i].status

C7_FinalStatusStays ==
    [][(s3_metadata.processing_status \in {"FINISHED", "FAILED"})
       => (s3_metadata'.processing_status = s3_metadata.processing_status)]_vars

\* the positions of update_overall_processing_status
OverallUpdate == {"ovr_get", "ovr_put"}

\* C37: when run_full_pipeline_async fails, the interaction is marked failed
\* whether or not the write of processing_status FAILED succeeds: the task
\* leaves update_overall_processing_status for the update of its
\* interaction to failed
C37_InteractionFailedAfterOverall ==
    [][\A t \in Tasks :
          (/\ kind[t] = "full"
           /\ pc[t] \in OverallUpdate
           /\ pc'[t] \notin OverallUpdate)
          => /\ pc'[t] = "upd_get"
             /\ upd_status'[t] = "failed"]_vars

\* the task has ended after a failure of query handling and three failed
\* attempts to store FAILED: the video is stored as FINISHED and the
\* interaction as processing
C37_Witness ==
    \E t \in Tasks :
       /\ kind[t] = "full"
       /\ pc[t] = "done"
       /\ s3_metadata.exists
       /\ s3_metadata.processing_status = "FINISHED"
       /\ \E i \in 1..Len(StoredLog) :
             /\ StoredLog[i].interaction_id = t
             /\ StoredLog[i].status = "processing"

\* C38: an attempt of add_interaction_to_s3 whose read of the log fails
\* with an error other than a missing key does not go on to write a log
\* without the interactions already stored: the list an attempt takes to its
\* put holds every stored interaction
C38_AddKeepsStoredLog ==
    [][\A t \in Tasks :
          (pc[t] = "add_get" /\ pc'[t] = "add_put")
          => \A i \in 1..Len(StoredLog) :
                \E j \in 1..Len(interactions'[t]) :
                   interactions'[t][j] = StoredLog[i]]_vars

\* C40: update_interaction_status_in_s3 changes only the status, ai_answer
\* and answer_timestamp of the record with the interaction_id: the other
\* records, the interaction_id of that record and the order of the records
\* as read are unchanged, and what it puts is that list; when no record has
\* the interaction_id it writes nothing and goes to no put
C40_UpdateFrame ==
    [][\A t \in Tasks :
          /\ (pc[t] = "upd_get" /\ pc'[t] = "upd_put")
             => /\ t \in Ids(StoredLog)
                /\ Len(interactions'[t]) = Len(StoredLog)
                /\ \A i \in 1..Len(StoredLog) :
                      /\ interactions'[t][i].interaction_id =
                            StoredLog[i].interaction_id
                      /\ StoredLog[i].interaction_id # t
                         => interactions'[t][i] = StoredLog[i]
                      /\ StoredLog[i].interaction_id = t
                         => interactions'[t][i].status = upd_status[t]
          /\ (/\ pc[t] = "upd_put"
              /\ pc'[t] # pc[t]
              /\ s3_interactions' # s3_interactions)
             => StoredLog' = interactions[t]
          /\ (/\ pc[t] = "upd_get"
              /\ pc'[t] # pc[t] \/ attempt'[t] # attempt[t])
             => /\ s3_interactions' = s3_interactions
                /\ t \notin Ids(StoredLog) => pc'[t] # "upd_put"]_vars

\* the second of two stored interactions has been completed: the first
\* record is as it was added and comes first
C40_Witness ==
    /\ Len(StoredLog) = 2
    /\ StoredLog[1] = NewInteraction(1)
    /\ StoredLog[2] = UpdatedRecord(NewInteraction(2), "completed", "answer", "ts")
    /\ pc[2] = "done"

\* the update of an interaction that is not in the stored log has returned
\* without a write
C40_WitnessNotFound ==
    \E t \in Tasks :
       /\ pc[t] = "done"
       /\ StoredLog # <<>>
       /\ t \notin Ids(StoredLog)

(* ---------- properties of the ingestion pipeline ---------- *)

\* C8: whenever a stage of a run of the ingestion pipeline has failed, the
\* run ends with the document holding processing_status FAILED and the
\* error.
C8_FailureRecorded ==
    (stage = "idle" /\ failed_stage # Null)
    => /\ doc.exists
       /\ doc.processing_status = "FAILED"
       /\ doc.error_message # Null

\* C9: the document holds processing_status FINISHED only when the indexing
\* logic has run to its end on it (with or without recorded errors).
C9_FinishedAfterIndexing ==
    doc.processing_status = "FINISHED" => index_ended

\* a finished document whose indexing ended with recorded errors
C9_Witness ==
    /\ doc.processing_status = "FINISHED"
    /\ doc.indexing_status = "COMPLETED_WITH_ERRORS"
    /\ stage = "idle"

\* C10: a run of main_pipeline started on a document whose
\* processing_status is FINISHED makes no download, segmentation, caption,
\* summary, embedding, fetch or upsert request.
C10_RerunNoCalls ==
    start_status = "FINISHED" => run_calls \cap ProcessingCalls = {}

\* every segment of the document has a caption that is not null
AllCaptioned(d) ==
    /\ d.chunks # <<>>
    /\ \A i \in 1..Len(d.chunks) : d.chunks[i] = "text"

\* C11: the caption stage run on a document in which every segment has a
\* non-null caption makes no caption request and no summary request.
C11_CaptionStageIdempotent ==
    [][(stage = "caption" /\ AllCaptioned(doc)) => run_calls' = run_calls]_vars

\* a second run whose caption stage has passed a fully captioned document
\* on to indexing without a request
C11_Witness ==
    /\ runs = 2
    /\ stage = "index"
    /\ AllCaptioned(doc)
    /\ run_calls = {}

\* C12: whenever the document's indexing_status is COMPLETED, every segment
\* with a non-null caption has a vector in the index under its chunk_name.
C12_CompletedMeansIndexed ==
    doc.indexing_status = "COMPLETED"
    => chunks_with_captions(doc.chunks) \subseteq pinecone_index

\* indexing completed on a document with a captioned and an uncaptioned
\* segment: the captioned one is in the index, the other is not
C12_Witness ==
    /\ doc.indexing_status = "COMPLETED"
    /\ chunks_with_captions(doc.chunks) # {}
    /\ chunks_with_captions(doc.chunks) = pinecone_index
    /\ \E i \in 1..Len(doc.chunks) : doc.chunks[i] = "none"

\* the embedding failed for some, not all, of the chunks to process, and
\* the upsert of the others did not fail
PartialEmbedding ==
    /\ indexing.embeddings # {}
    /\ indexing.embeddings # indexing.chunks_to_process
    /\ ~indexing.upsert_failed

\* C13: when the embedding fails for some but not all of the captioned
\* segments that are not yet indexed, every segment whose embedding
\* succeeded is upserted, indexing_status becomes COMPLETED_WITH_ERRORS and
\* the final update still stores processing_status FINISHED.
C13_PartialEmbeddingFinishes ==
    PartialEmbedding
    => /\ indexing.embeddings \subseteq pinecone_index
       /\ data = "COMPLETED_WITH_ERRORS"
       /\ (stage = "idle" /\ failed_stage = Null)
             => /\ doc.processing_status = "FINISHED"
                /\ doc.indexing_status = "COMPLETED_WITH_ERRORS"

\* a run that ended after one of two embeddings had failed
C13_Witness ==
    /\ PartialEmbedding
    /\ stage = "idle"
    /\ failed_stage = Null
    /\ doc.processing_status = "FINISHED"
    /\ Cardinality(indexing.chunks_to_process) = 2
    /\ Cardinality(pinecone_index) = 1

\* C14: while the video's metadata document does not exist, a query task
\* makes no retrieval, tool or synthesis call and holds no answer; the only
\* update it runs is the one to failed, and what it writes for its
\* interaction is status failed with no answer.
C14_MissingMetadataFails ==
    ~s3_metadata.exists
    => \A t \in Tasks :
          /\ pc[t] \notin {"retrieve", "call_mcp"}
          /\ final_answer[t] = Null
          /\ pc[t] \in {"upd_get", "upd_put"} => upd_status[t] = "failed"
          /\ pc[t] = "upd_put"
                => \A i \in RecordsOf(interactions[t], t) :
                      /\ interactions[t][i].status = "failed"
                      /\ interactions[t][i].ai_answer = Null
          /\ \A i \in RecordsOf(StoredLog, t) :
                /\ StoredLog[i].status # "completed"
                /\ StoredLog[i].ai_answer = Null

\* a query on a video without metadata that has returned, its interaction
\* stored as failed
C14_Witness ==
    /\ ~s3_metadata.exists
    /\ \E t \in Tasks :
          /\ pc[t] = "done"
          /\ \E i \in RecordsOf(StoredLog, t) : StoredLog[i].status = "failed"

\* C15: run_query_pipeline_async never lets an exception leave it: a task
\* never ends raised, and it returns only out of an update of its
\* interaction, the one to completed or the attempt to store failed that
\* every failure of the sequence leads to.
C15_NeverPropagates ==
    [][\A t \in Tasks :
          pc'[t] # pc[t]
          => /\ pc'[t] # "raised"
             /\ pc'[t] = "done" => pc[t] \in {"upd_get", "upd_put"}]_vars

\* the only query submitted has returned with its interaction still
\* processing: the update to failed failed too and was only logged
C15_Witness ==
    \E t \in Tasks :
       /\ pc[t] = "done"
       /\ \A u \in Tasks \ {t} : kind[u] = "none"
       /\ \E i \in RecordsOf(StoredLog, t) : StoredLog[i].status = "processing"

\* C16: the status poll always answers: with processing_status PROCESSING
\* when the metadata document is missing, ERROR_FETCHING_METADATA on any
\* other error of the metadata read, the stored status otherwise, and with
\* an empty interactions list when the read of the log fails.
C16_PollNeverFails ==
    poll_response.polled
    => /\ poll_response.metadata_read = "error"
             => poll_response.processing_status = "ERROR_FETCHING_METADATA"
       /\ (poll_response.metadata_read = "ok" /\ ~s3_metadata.exists)
             => poll_response.processing_status = "PROCESSING"
       /\ (poll_response.metadata_read = "ok" /\ s3_metadata.exists)
             => poll_response.processing_status = s3_metadata.processing_status
       /\ ~poll_response.read_ok => poll_response.interactions = <<>>

\* a poll of a video without metadata whose read of a non-empty log failed
C16_Witness ==
    /\ poll_response.polled
    /\ poll_response.metadata_read = "ok"
    /\ ~s3_metadata.exists
    /\ poll_response.processing_status = "PROCESSING"
    /\ ~poll_response.read_ok
    /\ poll_response.stored # <<>>
    /\ poll_response.interactions = <<>>

\* C25: the records of the interaction log are in the order in which the
\* interactions arrived (query t arrives after every query u < t)
C25_ArrivalOrder ==
    \A i, j \in 1..Len(StoredLog) :
       i < j => StoredLog[i].interaction_id < StoredLog[j].interaction_id

\* the log holds the second query before the first
C25_Witness ==
    /\ Len(StoredLog) = 2
    /\ StoredLog[1].interaction_id = 2
    /\ StoredLog[2].interaction_id = 1

\* the positions at which a retry-wrapped helper puts what it read and changed
HelperPuts == {"add_put", "upd_put", "ovr_put"}

\* C26: every write of the metadata document or of the interaction log is
\* the put of a read-modify-write helper inside its retry loop
C26_WritesThroughHelper ==
    [][(s3_metadata' # s3_metadata \/ s3_interactions' # s3_interactions)
       => \E t \in Tasks : pc[t] \in HelperPuts /\ pc'[t] # pc[t]]_vars

\* the full pipeline has just put the initial document
C26_Witness ==
    \E t \in Tasks :
       /\ kind[t] = "full"
       /\ pc[t] = "add_get"
       /\ attempt[t] = 0
       /\ s3_metadata = MetadataDoc("PROCESSING")
       /\ s3_interactions = NoSuchKey

\* the helper a position belongs to
HelperOf(p) ==
    CASE p \in {"add_get", "add_put"} -> "add_interaction_to_s3"
      [] p \in {"upd_get", "upd_put"} -> "update_interaction_status_in_s3"
      [] p \in {"ovr_get", "ovr_put"} -> "update_overall_processing_status"
      [] OTHER                        -> "none"

\* C27: each of the three helpers makes at most 3 attempts, goes on to a
\* next attempt only after a failed one, returns after the attempt whose
\* write succeeds, and raises only after the third failed attempt
C27_BoundedRetry ==
    [][\A t \in Tasks :
          LET stepped == pc'[t] # pc[t] \/ attempt'[t] # attempt[t]
              wrote == \/ s3_interactions' # s3_interactions
                       \/ s3_metadata' # s3_metadata
              same_call == /\ HelperOf(pc'[t]) = HelperOf(pc[t])
                           /\ upd_status'[t] = upd_status[t]
                           /\ attempt'[t] \in {attempt[t], attempt[t] + 1}
              not_found == /\ pc[t] = "upd_get"
                           /\ t \notin Ids(StoredLog)
          IN  (stepped /\ HelperOf(pc[t]) # "none")
              => /\ attempt[t] < retries
                 /\ attempt'[t] = attempt[t] + 1 => (~wrote /\ same_call)
                 /\ wrote => (pc[t] \in HelperPuts /\ ~same_call)
                 /\ (~wrote /\ ~same_call /\ ~not_found)
                    => attempt[t] = retries - 1]_vars

\* add_interaction_to_s3 has raised after its last attempt: nothing was
\* written and the task is in its except block
C27_Witness ==
    \E t \in Tasks :
       /\ kind[t] = "full"
       /\ pc[t] = "ovr_get"
       /\ s3_interactions = NoSuchKey
       /\ s3_metadata = MetadataDoc("PROCESSING")

\* task t is at the start of attempt number n (from 1) of a helper, back
\* from the sleep after the failed attempt before it
BackFromSleep(t, n) ==
    /\ pc[t] \in {"add_get", "upd_get", "ovr_get"}
    /\ attempt[t] = n - 1

\* C28 (as stated): the wait is 2 s after the first failed attempt and 4 s
\* after the second
C28_BackoffFromTwo ==
    \A t \in Tasks :
       /\ BackFromSleep(t, 2) => slept[t] = 2
       /\ BackFromSleep(t, 3) => slept[t] = 4

\* C28: the wait doubles from 1 second: 1 s after the first failed attempt
\* and 2 s after the second, and there is no wait after the third
C28_BackoffFromOne ==
    \A t \in Tasks :
       /\ BackFromSleep(t, 2) => slept[t] = 1
       /\ BackFromSleep(t, 3) => slept[t] = 2
       /\ slept[t] # 0 => (BackFromSleep(t, 2) \/ BackFromSleep(t, 3))

\* a task is back from the sleep after its second failed attempt
C28_Witness ==
    \E t \in Tasks : BackFromSleep(t, 3) /\ slept[t] = 2

\* the steps from one stage of main_pipeline to the next; the indexing
\* stage is the steps index, index_run, index_final
StageSteps ==
    {<<"download", "chunk">>, <<"chunk", "caption">>, <<"caption", "index">>,
     <<"index", "index_run">>, <<"index_run", "index_final">>}

\* the requests a stage makes
CallsOf(s) ==
    CASE s = "download"  -> {"download"}
      [] s = "chunk"     -> {"segmentation"}
      [] s = "caption"   -> {"caption", "summary"}
      [] s = "index"     -> {"describe_index_stats"}
      [] s = "index_run" -> {"fetch", "embedding", "upsert"}
      [] OTHER           -> {}

\* what the document holds when the stage has returned success
StageWritten(s, d) ==
    CASE s = "download" -> d.exists
      [] s = "chunk"    -> d.exists /\ d.chunks # <<>>
      [] s = "caption"  -> /\ all_chunks_have_caption(d.chunks)
                           /\ d.overall_summary # Null
      [] OTHER          -> d.exists

\* C29: in a run of main_pipeline the stages run in the order download,
\* segment, caption and summarize, index; a stage starts only after the one
\* before it has returned success with its document written, and after a
\* stage has failed no later stage runs
C29_StagesInOrder ==
    [][/\ stage' # stage
          => \/ stage = "idle" /\ stage' = "download"
             \/ /\ <<stage, stage'>> \in StageSteps
                /\ failed_stage' = Null
                /\ StageWritten(stage, doc')
             \/ stage' = "idle"
       /\ failed_stage' # Null => stage' = "idle"
       /\ (run_calls' \ run_calls) \subseteq CallsOf(stage)]_vars

\* a run ended by the failure of the caption stage: the segmentation ran,
\* the indexing did not
C29_Witness ==
    /\ stage = "idle"
    /\ failed_stage = "caption"
    /\ "segmentation" \in run_calls
    /\ run_calls \cap (CallsOf("index") \cup CallsOf("index_run")) = {}

\* the step of the indexing stage that fetches, embeds and upserts, on a
\* document with captions
UpsertStep ==
    /\ stage = "index_run"
    /\ stage' = "index_final"
    /\ chunks_with_captions(doc.chunks) # {}

\* the vectors of the batches before batch b
BatchesBefore(vectors, b) ==
    {vectors[k] : k \in {n \in 1..Len(vectors) : batch_num(n) < b}}

\* when the upsert of a batch raises, the batches sent in the run are the
\* ones before it, and nothing is taken out of the index
HaltsAtFailedBatch ==
    /\ pinecone_index \subseteq pinecone_index'
    /\ indexing'.failed_batch # 0
       => /\ indexing'.upserted =
                BatchesBefore(indexing'.vectors_to_upsert,
                              indexing'.failed_batch)
          /\ indexing'.upsert_failed
    /\ (pinecone_index' \ pinecone_index) \subseteq indexing'.upserted
    /\ indexing'.upserted \subseteq indexing'.embeddings
    /\ indexing'.embeddings \subseteq indexing'.chunks_to_process

\* C32 as stated: a failed batch halts the upsert of the run and keeps the
\* batches before it, and a run embeds and upserts only the captioned
\* segments whose chunk_name is not yet in the index
C32_OnlyMissingSegments ==
    [][UpsertStep
       => /\ HaltsAtFailedBatch
          /\ indexing'.chunks_to_process =
                chunks_with_captions(doc.chunks) \ pinecone_index]_vars

\* C32: a failed batch halts the upsert of the run and keeps the batches
\* before it; a run embeds and upserts only the captioned segments whose
\* chunk_name is not yet in the index when the fetch of the existing ids
\* succeeds, and every captioned segment when that fetch fails
C32_OnlyMissingWhenFetched ==
    [][UpsertStep
       => /\ HaltsAtFailedBatch
          /\ indexing'.chunks_to_process =
                IF indexing'.fetch_failed
                THEN chunks_with_captions(doc.chunks)
                ELSE chunks_with_captions(doc.chunks) \ pinecone_index]_vars

\* a second run that upserted the one segment the first run had left out
\* when its second batch failed
C32_Witness ==
    /\ runs = 2
    /\ stage = "index_final"
    /\ ~indexing.fetch_failed
    /\ indexing.failed_batch = 0
    /\ indexing.chunks_to_process = {2}
    /\ indexing.upserted = {2}
    /\ pinecone_index = {1, 2}

\* a run whose second batch failed: the first batch is in the index
C32_WitnessHalted ==
    /\ indexing.failed_batch = 2
    /\ indexing.upserted = {1}
    /\ pinecone_index = {1}

\* C36: index_captions_in_pinecone returns the path of the document when
\* the indexing was successful or was skipped on an indexing_status of
\* COMPLETED, SKIPPED_NO_CAPTIONS or SKIPPED_ALREADY_INDEXED, and returns
\* None only on failure
C36_PathUnlessFailure ==
    index_returned = "None" => failed_stage = "index"

\* a second run on a document indexed by the first: the indexing is skipped
\* and the function has returned None without a failure
C36_Witness ==
    /\ runs = 2
    /\ stage = "idle"
    /\ failed_stage = Null
    /\ doc.indexing_status = "COMPLETED"
    /\ "describe_index_stats" \in run_calls
    /\ index_returned = "None"

\* the values of indexing_status of an indexing that has ended
IndexingEnded ==
    {"COMPLETED", "COMPLETED_WITH_ERRORS", "SKIPPED_NO_CAPTIONS",
     "SKIPPED_ALREADY_INDEXED"}

\* C39: whenever the indexing stage writes processing_status FINISHED, the
\* indexing_status it writes is COMPLETED, COMPLETED_WITH_ERRORS,
\* SKIPPED_NO_CAPTIONS or SKIPPED_ALREADY_INDEXED, never IN_PROGRESS, also
\* in a run in which every captioned segment is already in the index
C39_FinishedWithIndexingEnded ==
    [][(/\ stage = "index_final"
        /\ doc' # doc
        /\ doc'.processing_status = "FINISHED")
       => doc'.indexing_status \in IndexingEnded]_vars

\* a second run that found every captioned segment in the index and ended
\* without a failure: the document is FINISHED with indexing_status
\* IN_PROGRESS
C39_Witness ==
    /\ runs = 2
    /\ stage = "idle"
    /\ failed_stage = Null
    /\ index_returned = "path"
    /\ ~indexing.fetch_failed
    /\ indexing.chunks_to_process = {}
    /\ chunks_with_captions(doc.chunks) # {}
    /\ chunks_with_captions(doc.chunks) \subseteq pinecone_index
    /\ doc.processing_status = "FINISHED"
    /\ doc.indexing_status = "IN_PROGRESS"

(* ---------- properties of retrieval ---------- *)

\* the call returned what a successful index query matched
Retrieved ==
    /\ retrieval.outcome = "returned"
    /\ retrieval.queried

C24_OnlyQueriedVideo ==
    Retrieved =>
       \A i \in 1..Len(retrieval.retrieved_chunks) :
          retrieval.retrieved_chunks[i].video_id = retrieval.video_id

\* the vector most similar to the query belongs to another video, and a
\* match of the queried video is returned
C24_Witness ==
    /\ Retrieved
    /\ retrieval.index # <<>>
    /\ retrieval.index[1].video_id # retrieval.video_id
    /\ retrieval.retrieved_chunks # <<>>

\* C18: on any retrieval error (a missing client, a failed embedding of the
\* query, a failed index query) the call returns the empty list and does
\* not raise
C18_ErrorGivesEmptyList ==
    (retrieval.outcome # "none"
       /\ ~(retrieval.clients /\ retrieval.embedded /\ retrieval.queried))
    => /\ retrieval.outcome = "returned"
       /\ retrieval.retrieved_chunks = <<>>

\* the query could not be embedded
C18_Witness ==
    /\ retrieval.outcome # "none"
    /\ retrieval.clients
    /\ ~retrieval.embedded

(* ---------- properties of the tool call ---------- *)

\* a text in brackets with something between them
IsBracketed(text) ==
    /\ Len(text) > 2
    /\ text[1] = "["
    /\ text[Len(text)] = "]"

\* the call reached client.call_tool
ToolCalled(c) ==
    /\ c.url \in {"host_only", "full"}
    /\ c.transport = "ok"
    /\ c.use_llm_selection
       => /\ c.anthropic_client
          /\ c.tools = "some"
          /\ c.selection = "tool_use"

\* the tool provider returned a result flagged as an error
ToolReportedError(c) ==
    /\ ToolCalled(c)
    /\ c.executed
    /\ c.result.shape = "object"
    /\ c.result.isError

\* C19: when the tool provider returns a result flagged as an error, either
\* strategy returns the bracketed text "[Tool Error: <message>]"
C19_ToolErrorBracketed ==
    (mcp.outcome # "none" /\ ToolReportedError(mcp.call))
    => /\ mcp.outcome = "returned"
       /\ IsBracketed(mcp.text)
       /\ mcp.text[2] = "Tool Error: "

\* the rule-based strategy got an error result that carries its message
C19_Witness ==
    /\ mcp.outcome # "none"
    /\ ToolReportedError(mcp.call)
    /\ ~mcp.call.use_llm_selection
    /\ mcp.call.result.content = "list"
    /\ mcp.call.result.parts = <<"text">>

\* something the claim lists went wrong in the call: the URL, the
\* connection, the selection or the execution of the tool
McpFailed(c) ==
    \/ c.url \in {"unset", "no_scheme"}
    \/ c.transport # "ok"
    \/ /\ c.use_llm_selection
       /\ \/ ~c.anthropic_client
          \/ c.tools # "some"
          \/ c.selection \in {"AnthropicAPIError", "Exception"}
    \/ ToolCalled(c) /\ ~c.executed

\* C20: _call_mcp never raises, each failure of the URL, the connection,
\* the selection or the execution gives a non-empty bracketed text, and the
\* task goes on from its call to store the interaction as completed with an
\* answer
C20_CallMcpNeverRaises ==
    [][/\ mcp' # mcp
          => /\ mcp'.outcome = "returned"
             /\ McpFailed(mcp'.call) => IsBracketed(mcp'.text)
       /\ \A t \in Tasks :
             (pc[t] = "call_mcp" /\ pc'[t] # pc[t])
             => /\ pc'[t] = "upd_get"
                /\ upd_status'[t] = "completed"
                /\ final_answer'[t] # Null]_vars

\* the connection to the tool provider failed and the task has gone on to
\* store an answer
C20_Witness ==
    /\ mcp.outcome = "returned"
    /\ mcp.call.url = "full"
    /\ mcp.call.transport = "ConnectError"
    /\ IsBracketed(mcp.text)
    /\ pc[1] = "upd_get"
    /\ upd_status[1] = "completed"
    /\ final_answer[1] # Null

(* ---------- properties of the rule-based selection ---------- *)

\* the query as written holds a deep-research keyword
DeepResearchKeywordPresent(query) ==
    \E k \in deep_research_keywords : keyword_in(k, query.head)

\* C21: the research tool is selected if a deep-research keyword is present,
\* or the research score is at least 3, or it is at least 2 and the query
\* has more than 50 words; otherwise the reasoning tool if the reasoning
\* score is at least 2; otherwise the ask tool
C21_ToolByScores ==
    selection.called =>
       LET q == selection.query IN
       selection.tool =
          IF \/ DeepResearchKeywordPresent(q)
             \/ research_score(q) >= 3
             \/ research_score(q) >= 2 /\ is_long_query(q)
          THEN "perplexity_research"
          ELSE IF reasoning_score(q) >= 2
          THEN "perplexity_reason"
          ELSE "perplexity_ask"

\* a short query that names Deep Research
C21_Witness ==
    /\ selection.called
    /\ selection.query = [head |-> <<"Deep", "Research">>, filler |-> 0]

(* ---------- properties of the segmentation ---------- *)

\* the document was written by the fixed-window fallback
FallbackWritten ==
    /\ segmentation.called
    /\ segmentation.written
    /\ segmentation.detected <= 1

\* C22: with at most one scene detected, the fallback produces
\* ceil(total_duration / 4.0) segments numbered 1..n, for every frame rate
C22_FallbackSegmentCount ==
    FallbackWritten =>
       LET n == Ceil(segmentation.duration_frames * 100,
                     fixed_chunk_duration * segmentation.frame_rate)
       IN  /\ Len(segmentation.chunks) = n
           /\ \A i \in 1..n : segmentation.chunks[i].chunk_number = i

\* a clip of 359 frames at 29.97 frames per second, just under 12 seconds
C22_Witness ==
    /\ FallbackWritten
    /\ segmentation.frame_rate = 2997
    /\ segmentation.duration_frames = 359

\* C23: in every document the segmentation writes, the chunk at index i
\* (from 0) has chunk_number i + 1
C23_ChunkNumbersContiguous ==
    (segmentation.called /\ segmentation.written) =>
       \A k \in 1..Len(segmentation.chunks) :
          segmentation.chunks[k].chunk_number = k

\* a fallback whose last window is cut short by the end of the video
C23_Witness ==
    /\ FallbackWritten
    /\ Len(segmentation.chunks) >= 2
    /\ LET last == segmentation.chunks[Len(segmentation.chunks)]
       IN  last.end_frame - last.start_frame
             < chunk_len_frames(segmentation.frame_rate)

(* ---------- properties of the captioning of a segment ---------- *)
\* the provider errors that pass: timeout, rate limit, server error
TransientErrors ==
    {"TimeoutError", "DeadlineExceeded", "ResourceExhausted",
     "ServiceUnavailable"}

\* the provider errors that do not pass: bad input, authentication
NonTransientErrors == {"InvalidArgument", "Unauthenticated"}

\* the outcome of the latest attempt
LastOutcome == captioning.outcomes[Len(captioning.outcomes)]

C30_RetryAsCoded ==
    /\ captioning.attempts_made <= CAPTION_MAX_RETRIES
    /\ captioning.attempts_made = Len(captioning.outcomes)
    /\ \A i \in 1..(Len(captioning.outcomes) - 1) :
          /\ captioning.outcomes[i] # "caption"
          /\ is_retryable(exception_of(captioning.outcomes[i]))
    /\ captioning.attempts_made > 0
       => /\ captioning.returned
             <=> \/ LastOutcome = "caption"
                 \/ ~is_retryable(exception_of(LastOutcome))
                 \/ captioning.attempts_made = CAPTION_MAX_RETRIES
          /\ captioning.caption = Null <=> LastOutcome # "caption"

\* C31: an attempt whose upload succeeded has issued the delete of the
\* uploaded file by the time the next attempt starts or the function returns,
\* whether it gave a caption, a retryable error or a non-retryable error
C31_UploadedFileDeleted ==
    (captioning.attempts_made > 0 /\ captioning.uploaded_file)
       => captioning.delete_issued

\* a third attempt that uploaded the file and failed with an error that is
\* retried, after which the loop goes on
C31_Witness ==
    /\ captioning.attempts_made = 3
    /\ captioning.uploaded_file
    /\ captioning.delete_issued
    /\ LastOutcome = "ServiceUnavailable"
    /\ ~captioning.returned

\* an attempt that failed with a non-retryable error after its upload
C31_WitnessAborted ==
    /\ captioning.uploaded_file
    /\ captioning.delete_issued
    /\ LastOutcome = "Exception"
    /\ captioning.returned

(* ---------- properties of the worker pool ---------- *)
\* C33: for every order of completion of the workers, the caption stored
\* on a segment is the result produced for that segment's own file
C33_CaptionOfOwnFile ==
    /\ pool.phase = "updated"
       => \A k \in Segments :
             pool.captions[k] =
                IF k \in pool.chunks_to_process
                THEN caption_of_result(k, pool.results[k])
                ELSE CaptionOf(k)
    /\ \A k \in DOMAIN pool.caption_map :
          /\ k \in pool.chunks_to_process
          /\ pool.caption_map[k] = caption_of_result(k, pool.results[k])

\* three workers that completed in the reverse of the order of submission,
\* the second without a caption
C33_Witness ==
    /\ pool.phase = "updated"
    /\ pool.completed = <<3, 2, 1>>
    /\ pool.captions = <<CaptionOf(1), NoCaption, CaptionOf(3)>>

(* ---------- properties of the model-driven selection ---------- *)
\* the positions of the blocks of a type in the response
BlocksOf(type) ==
    {n \in 1..Len(llm.content) : llm.content[n].type = type}

\* the first position of a non-empty set of positions
First(S) == CHOOSE n \in S : \A k \in S : n <= k

\* C34: the model-driven selection calls at most one tool, the one of the
\* first tool-use block of the response, whatever tool-use blocks follow;
\* a response without a tool-use block gives the text of its first text
\* block
C34_FirstToolUseOnly ==
    llm.called
    => /\ Len(llm.tool_calls) <= 1
       /\ BlocksOf("tool_use") # {}
          => llm.tool_calls = <<llm.content[First(BlocksOf("tool_use"))].value>>
       /\ BlocksOf("tool_use") = {} => llm.tool_calls = <<>>
       /\ (BlocksOf("tool_use") = {} /\ BlocksOf("text") # {})
          => llm.text = <<llm.content[First(BlocksOf("text"))].value>>

\* a response with a text block and two tool-use blocks naming different
\* tools: the first of the two is called
C34_Witness ==
    /\ llm.called
    /\ Len(llm.content) = 3
    /\ llm.content[1].type = "text"
    /\ llm.content[2] = [type |-> "tool_use", value |-> "perplexity_research"]
    /\ llm.content[3] = [type |-> "tool_use", value |-> "perplexity_ask"]
    /\ llm.tool_calls = <<"perplexity_research">>

\* a response of two text blocks: the text of the first is returned
C34_WitnessText ==
    /\ llm.called
    /\ llm.content = <<[type |-> "text", value |-> "text_b"],
                       [type |-> "text", value |-> "text_a"]>>
    /\ llm.text = <<"text_b">>

(* ---------- properties of the time hints ---------- *)
\* the hint is one of the hints of the clip
Hinted(hint) == \E n \in 1..Len(context.hints) : context.hints[n] = hint

\* C35: a clip with numeric normalized times is hinted 'near the beginning'
\* exactly when its normalized start is at most 0.15, 'near the end' exactly
\* when its normalized end is at least 0.85, 'around the middle' exactly when
\* neither holds; it has at least one hint
C35_TimeHints ==
    (context.called /\ context.is_valid_start /\ context.is_valid_end)
    => LET beginning == 100 * context.norm_start <= 15 * TimeSteps
           end == 100 * context.norm_end >= 85 * TimeSteps
       IN  /\ Hinted("near the beginning") <=> beginning
           /\ Hinted("near the end") <=> end
           /\ Hinted("around the middle") <=> (~beginning /\ ~end)
           /\ context.hints # <<>>

\* a clip that starts after the start of the video, by 0.15, and ends
\* before its end, from 0.85 on: both hints, in this order
C35_Witness ==
    /\ context.called
    /\ context.is_valid_start /\ context.is_valid_end
    /\ context.norm_start > 0
    /\ context.norm_end < TimeSteps
    /\ context.hints = <<"near the beginning", "near the end">>

\* a clip hinted around the middle
C35_WitnessMiddle ==
    /\ context.called
    /\ context.hints = <<"around the middle">>

====
